---- MODULE Spec2Model ----
(***************************************************************************)
(* SafetyMonitor (src/src/security/safety_monitor.py): the threshold       *)
(* escalation and emergency-shutdown monitor.                              *)
(*                                                                         *)
(* The monitor object is shared by the caller context (the asyncio thread  *)
(* that calls initialize/start/stop, registers callbacks and may call the  *)
(* shutdown trigger) and by the monitoring threads that start() spawns.    *)
(* The source takes no lock, so every thread advances one source statement *)
(* (or one group of statements that touches no shared field twice) per     *)
(* step, and the steps of different threads interleave freely.             *)
(***************************************************************************)
EXTENDS Integers, Sequences, FiniteSets, TLC

\* ------------------------------------------------------------------ bounds
\* Under free interleaving (Spec):
MaxTicks == 2           \* ticks begun over the lifetime of the instance
MaxTasks == 2           \* monitoring threads spawned by start()
MaxCallbacks == 1       \* length of each callback list
\* With the operations serialized (SerialSpec):
SerialTicks == 1
SerialTasks == 1
SerialCallbacks == 2
\* With the operations serialized and sensor values of every tier (TierSpec):
TierTicks == 1
TierTasks == 1
TierCallbacks == 1
\* The authorization gate (GateSpec):
MaxCallers == 2         \* caller contexts calling the check
MaxChecks == 2          \* violations logged plus calls under way
MaxAdded == 2           \* restrictions added to the defaults
\* The whole monitor, gate included (WholeSpec):
WholeAdded == 1         \* restrictions added to the defaults
\* The monitor and a caller that reads it (ReaderSpec):
ReaderShutdowns == 2    \* shutdowns counted, after which the caller no
                        \* longer writes to the state it was handed
\* Consecutive ticks with sensor values of every tier (LevelSpec):
LevelTicks == 2
\* A monitor whose histories are about to overflow (HistorySpec):
HistoryShort == 2       \* readings missing to the cap, at most, at the start
HistoryTicks == 3       \* ticks begun beyond the cap
\* The engine (EngineSpec):
MaxDecisions == 2     \* decisions the engine has made, at most

\* --------------------------------------------------------------- constants
NoShutdown == 0     \* SafetyState.last_shutdown = None
HistoryCap == 1000
HistoryKeep == 500

\* SafetyLevel, ShutdownReason (enum values)
NORMAL == "normal"
WARNING == "warning"
CRITICAL == "critical"
EMERGENCY == "emergency"
SafetyLevel == {NORMAL, WARNING, CRITICAL, EMERGENCY}
level_order == <<NORMAL, WARNING, CRITICAL, EMERGENCY>>

THERMAL_RUNAWAY == "thermal_runaway"
POWER_SURGE == "power_surge"
NEURAL_ANOMALY == "neural_anomaly"
UNAUTHORIZED_PROCESS == "unauthorized_process"
MANUAL_OVERRIDE == "manual_override"
SYSTEM_FAILURE == "system_failure"
ShutdownReason == {THERMAL_RUNAWAY, POWER_SURGE, NEURAL_ANOMALY,
                   UNAUTHORIZED_PROCESS, MANUAL_OVERRIDE, SYSTEM_FAILURE}

\* Reasons a caller context passes to the trigger (the tests pass these two).
CallerReasons == {MANUAL_OVERRIDE, SYSTEM_FAILURE}

\* Position of a level in level_order (list.index).
LevelIndex(l) == CHOOSE i \in 1..Len(level_order) : level_order[i] = l

\* max(levels, key=lambda x: level_order.index(x))
MaxLevel(levels) ==
    CHOOSE l \in levels : \A k \in levels : LevelIndex(k) <= LevelIndex(l)

\* ------------------------------------------------------ threshold tables
\* ThermalThresholds: the defaults, the lowered emergency thresholds the
\* tests and callers construct (50: at the throttling threshold; 45: at the
\* warning threshold), and one above max_allowed.
DefaultThermal ==
    [warning_threshold |-> 45, throttling_threshold |-> 50,
     critical_threshold |-> 55, emergency_threshold |-> 60, max_allowed |-> 60]
ThermalConfigs ==
    {DefaultThermal,
     [DefaultThermal EXCEPT !.emergency_threshold = 50],
     [DefaultThermal EXCEPT !.emergency_threshold = 45],
     [DefaultThermal EXCEPT !.emergency_threshold = 70]}

\* PowerThresholds: the defaults and the test's max_current_ma = 1000, which
\* leaves current_limit_ma (1500) above the maximum.
DefaultPower ==
    [normal_current_ma |-> 100, warning_current_ma |-> 500,
     critical_current_ma |-> 1000, max_current_ma |-> 2000,
     current_limit_ma |-> 1500]
PowerConfigs == {DefaultPower, [DefaultPower EXCEPT !.max_current_ma = 1000]}

\* NeuralSafetyThresholds
DefaultNeural ==
    [normal_eeg_uv |-> 100, seizure_threshold_uv |-> 500,
     critical_threshold_uv |-> 1000, sampling_rate_hz |-> 256]
NeuralConfigs == {DefaultNeural}

\* Values the three sensor readers return: one per tier of the default
\* ladders (0 is what the unpatched readers of the source return).
TempValues == {0, 47, 52, 57, 60}
CurrentValues == {0, 600, 1200, 2000}
NeuralValues == {0, 600, 1000}

\* ---------------------------------------------------------------- threads
MostTasks == CHOOSE n \in {MaxTasks, SerialTasks, TierTasks} :
                 \A m \in {MaxTasks, SerialTasks, TierTasks} : m <= n
Tasks == 1..MostTasks
Threads == {0} \cup Tasks
Main == CHOOSE t \in Threads : t \notin Tasks

\* Behaviours of registered callbacks: returns, raises, or (shutdown
\* callbacks) calls the shutdown trigger again from inside the callback.
ShutdownCallbackKinds == {"ok", "raises", "reentrant"}
AlertCallbackKinds == {"ok", "raises"}

\* ------------------------------------------------------ process restrictions
\* Text is a sequence of characters. A pattern is a sequence of tokens: a
\* character (or "." for any character), starred or not.
Lit(c) == [ch |-> c, star |-> FALSE]
AnyStar == [ch |-> ".", star |-> TRUE]
Lits(text) == [k \in DOMAIN text |-> Lit(text[k])]

\* str.lower() on the characters that occur.
Lower(c) ==
    CASE c = "C" -> "c"
      [] c = "P" -> "p"
      [] c = "U" -> "u"
      [] c = "B" -> "b"
      [] c = "R" -> "r"
      [] c = "N" -> "n"
      [] OTHER -> c

\* A pattern token accepts a character (re.IGNORECASE).
Accepts(token, c) == token.ch = "." \/ Lower(token.ch) = Lower(c)

\* A match that takes ".*" for a single arbitrary character.
re_match_unstarred(pattern, name) ==
    /\ Len(name) >= Len(pattern)
    /\ \A k \in DOMAIN pattern : Accepts(pattern[k], name[k])

\* re.match(pattern, name, re.IGNORECASE): the pattern matches at the START
\* of name (and need not reach its end). MatchAt: the pattern from token i
\* on matches name from character j on.
RECURSIVE MatchAt(_, _, _, _)
MatchAt(pattern, i, name, j) ==
    IF i > Len(pattern) THEN TRUE
    ELSE IF pattern[i].star
    THEN \/ MatchAt(pattern, i + 1, name, j)
         \/ /\ j <= Len(name)
            /\ Accepts(pattern[i], name[j])
            /\ MatchAt(pattern, i, name, j + 1)
    ELSE /\ j <= Len(name)
         /\ Accepts(pattern[i], name[j])
         /\ MatchAt(pattern, i + 1, name, j + 1)

re_match(pattern, name) == MatchAt(pattern, 1, name, 1)

\* ProcessRestriction(name, pattern, risk_level, allowed_with_safeguards,
\*                    requires_authorization)
ProcessRestriction(name, pattern, risk_level, allowed, requires) ==
    [name |-> name, pattern |-> pattern, risk_level |-> risk_level,
     allowed_with_safeguards |-> allowed, requires_authorization |-> requires]

DEFAULT_RESTRICTED_PROCESSES ==
    << ProcessRestriction("cpu-burn",
           Lits(<<"c", "p", "u">>) \o <<AnyStar>> \o Lits(<<"b", "u", "r", "n">>),
           EMERGENCY, FALSE, TRUE),
       ProcessRestriction("stress-ng",
           Lits(<<"s", "t", "r", "e", "s", "s">>) \o <<AnyStar>>,
           CRITICAL, FALSE, TRUE),
       ProcessRestriction("prime95",
           Lits(<<"p", "r", "i", "m", "e">>) \o <<AnyStar>>,
           CRITICAL, FALSE, TRUE),
       ProcessRestriction("folding@home",
           Lits(<<"f", "a", "h">>) \o <<AnyStar>>,
           WARNING, TRUE, TRUE) >>

\* Restrictions a caller adds: one that allows with safeguards and requires
\* no authorization, and a hard block behind it.
AddedRestrictions ==
    { ProcessRestriction("shells", Lits(<<"b", "a">>) \o <<AnyStar>>,
                         WARNING, TRUE, FALSE),
      ProcessRestriction("bash", Lits(<<"b", "a", "s", "h">>),
                         CRITICAL, FALSE, TRUE) }

\* Process names the callers ask about (the tests' names among them).
cpu_burn == <<"c", "p", "u", "-", "b", "u", "r", "n">>
cpu_burn_fast == cpu_burn \o <<"-", "f", "a", "s", "t">>
cpu_underscore_burn == <<"c", "p", "u", "_", "b", "u", "r", "n">>
CPU_BURN == <<"C", "P", "U", "-", "B", "U", "R", "N">>
my_cpu_burn == <<"m", "y", "-">> \o cpu_burn
stress == <<"s", "t", "r", "e", "s", "s">>
stress_ng == stress \o <<"-", "n", "g">>
prime95 == <<"p", "r", "i", "m", "e", "9", "5">>
folding_at_home == <<"f", "o", "l", "d", "i", "n", "g", "@", "h", "o", "m", "e">>
fahclient == <<"f", "a", "h", "c", "l", "i", "e", "n", "t">>
bash == <<"b", "a", "s", "h">>
python == <<"p", "y", "t", "h", "o", "n">>
vim == <<"v", "i", "m">>
ProcessNames ==
    {cpu_burn, cpu_burn_fast, cpu_underscore_burn, CPU_BURN, my_cpu_burn,
     stress, stress_ng, prime95, folding_at_home, fahclient, bash, python, vim}

\* Caller contexts that call the authorization check.
Callers == 1..MaxCallers

\* A caller context's call of check_process_authorization: where it is, the
\* name asked about, the index of the loop over the restrictions, the loaded
\* total_violations, the violations the call has logged, and what the last
\* call returned.
IdleCall ==
    [at |-> "idle", name |-> <<>>, i |-> 0, cnt |-> 0, logged |-> 0,
     result |-> "none"]

\* Objects a caller holds a reference to: none, the monitor's own SafetyState
\* (self.state), the monitor's own violation list, or a list of its own.
NoObject == "none"
SelfState == "self.state"
SelfViolations == "self._process_violations"
OwnList == "copy"

VARIABLES
    thermal, power, neural,         \* self.thermal, self.power, self.neural
    state,                          \* self.state: SafetyState
    is_initialized, is_running,     \* self._is_initialized, self._is_running
    stop_event,                     \* self._stop_event
    monitoring_thread,              \* self._monitoring_thread (0: None)
    shutdown_callbacks,             \* self._shutdown_callbacks
    alert_callbacks,                \* self._alert_callbacks
    temperature_readings,           \* self._temperature_readings
    current_readings,               \* self._current_readings
    neural_readings,                \* self._neural_readings
    pc,                             \* each thread's position in the source
    frame,                          \* each thread's locals
    shutdown_log,                   \* shutdown callback invocations, in order
    alert_log,                      \* _send_alert calls, in order
    clock,                          \* datetime.utcnow()
    ticks,                          \* ticks begun so far
    spawned,                        \* threads spawned so far
    raised,                         \* outcome of the caller's last call:
                                    \* "none", an exception, or "warned"
    restricted_processes,           \* self._restricted_processes
    process_violations,             \* self._process_violations
    gate,                           \* each caller context's running call of
                                    \* check_process_authorization
    returned_state,                 \* the object get_state() returned
    returned_log,                   \* the list get_violation_log() returned
    engine                          \* the ExcellenceEngine that owns the
                                    \* monitor (NoObject: there is none)

config == <<thermal, power, neural>>
lifecycle == <<is_initialized, is_running, stop_event, monitoring_thread>>
registry == <<shutdown_callbacks, alert_callbacks>>
histories == <<temperature_readings, current_readings, neural_readings>>
logs == <<shutdown_log, alert_log>>
budget == <<ticks, spawned>>
authorization == <<restricted_processes, process_violations, gate>>
handed == <<returned_state, returned_log>>
vars == <<thermal, power, neural, state, is_initialized, is_running,
          stop_event, monitoring_thread, shutdown_callbacks, alert_callbacks,
          temperature_readings, current_readings, neural_readings, pc, frame,
          shutdown_log, alert_log, clock, ticks, spawned, raised,
          restricted_processes, process_violations, gate, returned_state,
          returned_log, engine>>

\* SafetyState()
InitialSafetyState ==
    [is_active |-> FALSE, is_emergency |-> FALSE, current_temperature |-> 0,
     current_current_ma |-> 0, neural_activity_uv |-> 0,
     safety_level |-> NORMAL, last_shutdown |-> NoShutdown,
     shutdown_count |-> 0, total_violations |-> 0]

\* A thread's locals. reason, ret, i, cnt: the running call of the shutdown
\* trigger (its argument, where it returns to, the callback loop's index, the
\* loaded shutdown_count). lvl: the level _update_safety_level computed.
\* The rest describes the running tick: whether the monitor was in emergency
\* when it began, the channels sampled so far, whether a sensor read raised,
\* the reason of the trigger call of the tick that passed the is_emergency
\* check ("" when none did), the callbacks registered at that moment, the
\* hooks invoked.
EmptyFrame ==
    [reason |-> "", ret |-> "", i |-> 0, cnt |-> 0, lvl |-> NORMAL,
     pre |-> FALSE, sampled |-> {}, fault |-> FALSE, fired |-> "",
     n0 |-> 0, hooks |-> <<>>]

\* __init__, with thresholds of the given tables.
SafetyMonitorInit(thermals, powers, neurals) ==
    /\ thermal \in thermals
    /\ power \in powers
    /\ neural \in neurals
    /\ state = InitialSafetyState
    /\ is_initialized = FALSE
    /\ is_running = FALSE
    /\ stop_event = FALSE
    /\ monitoring_thread = 0
    /\ shutdown_callbacks = <<>>
    /\ alert_callbacks = <<>>
    /\ temperature_readings = <<>>
    /\ current_readings = <<>>
    /\ neural_readings = <<>>
    /\ pc = [t \in Threads |-> IF t = Main THEN "idle" ELSE "unborn"]
    /\ frame = [t \in Threads |-> EmptyFrame]
    /\ shutdown_log = <<>>
    /\ alert_log = <<>>
    /\ clock = 1
    /\ ticks = 0
    /\ spawned = 0
    /\ raised = "none"
    /\ restricted_processes = DEFAULT_RESTRICTED_PROCESSES
    /\ process_violations = <<>>
    /\ gate = [c \in Callers |-> IdleCall]
    /\ returned_state = NoObject
    /\ returned_log = [ref |-> NoObject, items |-> <<>>]

\* A monitor constructed by its caller: no engine owns it.
Construct(thermals, powers, neurals) ==
    /\ SafetyMonitorInit(thermals, powers, neurals)
    /\ engine = NoObject

\* ------------------------------------------------------------- callbacks
\* A dispatch that invokes the callback registered last first.
DispatchedNewestFirst(cbs) == [k \in 1..Len(cbs) |-> cbs[Len(cbs) + 1 - k]]

\* A dispatch without the try/except around the call: the first callback that
\* raises ends the loop.
RECURSIVE DispatchedUntilRaise(_)
DispatchedUntilRaise(cbs) ==
    IF cbs = <<>> THEN <<>>
    ELSE IF Head(cbs) = "raises" THEN <<Head(cbs)>>
    ELSE <<Head(cbs)>> \o DispatchedUntilRaise(Tail(cbs))

\* The callbacks a dispatch loop invokes, in order:
\*   for callback in callbacks: try: callback(...) except Exception: log
\* A callback that raises is caught inside the loop body, and the loop goes on.
RECURSIVE Dispatched(_)
Dispatched(cbs) ==
    IF cbs = <<>> THEN <<>> ELSE <<Head(cbs)>> \o Dispatched(Tail(cbs))

\* _send_alert(level, message) called by thread t: the alert log with the call
\* (and how many ticks had begun when it was made) and the alert callbacks it
\* invoked.
SendAlert(log, t, level, text, about) ==
    Append(log, [level |-> level, text |-> text, about |-> about, by |-> t,
                 tick |-> ticks, delivered |-> Dispatched(alert_callbacks)])

\* The caller context is between calls.
CallerCalls == pc[Main] = "idle"

\* on_emergency_shutdown(callback)
RegisterShutdownCallback(kind, cap) ==
    /\ CallerCalls
    /\ Len(shutdown_callbacks) < cap
    /\ shutdown_callbacks' = Append(shutdown_callbacks, kind)
    /\ raised' = "none"
    /\ UNCHANGED <<engine, handed, authorization, config,
                   state, lifecycle, alert_callbacks, histories, pc,
                   frame, logs, clock, ticks, spawned>>

\* on_safety_alert(callback)
RegisterAlertCallback(kind, cap) ==
    /\ CallerCalls
    /\ Len(alert_callbacks) < cap
    /\ alert_callbacks' = Append(alert_callbacks, kind)
    /\ raised' = "none"
    /\ UNCHANGED <<engine, handed, authorization, config,
                   state, lifecycle, shutdown_callbacks, histories, pc,
                   frame, logs, clock, ticks, spawned>>

\* ------------------------------------------- _trigger_emergency_shutdown
\* A thread enters the trigger with its argument and its return address.
Call(f, reason, ret) == [f EXCEPT !.reason = reason, !.ret = ret]

\* The frame after the trigger has returned: back in the caller context
\* nothing is kept, inside a tick the tick's locals are.
Returned(t) ==
    IF frame[t].ret = "idle" THEN EmptyFrame
    ELSE [frame[t] EXCEPT !.reason = "", !.ret = "", !.i = 0, !.cnt = 0]

\* One invocation of a shutdown callback, as the log records it.
Invocation(t, i, reason) ==
    [cb |-> i, kind |-> shutdown_callbacks[i], reason |-> reason, by |-> t]

\* TriggerCheck without the early return: the trigger runs again although
\* the monitor is already in emergency.
TriggerCheckAlways(t) ==
    /\ pc[t] = "t_check"
    /\ pc' = [pc EXCEPT ![t] = "t_flag"]
    /\ frame' = [frame EXCEPT ![t].fired = frame[t].reason,
                              ![t].n0 = Len(shutdown_callbacks)]
    /\ UNCHANGED <<engine, handed, authorization, config,
                   state, lifecycle, registry, histories, logs, clock,
                   budget, raised>>

\* if self.state.is_emergency: return
TriggerCheck(t) ==
    /\ pc[t] = "t_check"
    /\ IF state.is_emergency
       THEN /\ pc' = [pc EXCEPT ![t] = frame[t].ret]
            /\ frame' = [frame EXCEPT ![t] = Returned(t)]
       ELSE /\ pc' = [pc EXCEPT ![t] = "t_flag"]
            /\ frame' = [frame EXCEPT ![t].fired = frame[t].reason,
                                      ![t].n0 = Len(shutdown_callbacks)]
    /\ UNCHANGED <<engine, handed, authorization, config,
                   state, lifecycle, registry, histories, logs, clock,
                   budget, raised>>

\* self.state.is_emergency = True; self.state.last_shutdown = utcnow()
TriggerFlag(t) ==
    /\ pc[t] = "t_flag"
    /\ state' = [state EXCEPT !.is_emergency = TRUE, !.last_shutdown = clock]
    /\ clock' = clock + 1
    /\ pc' = [pc EXCEPT ![t] = "t_load"]
    /\ UNCHANGED <<engine, handed, authorization, config,
                   lifecycle, registry, histories, frame, logs, budget,
                   raised>>

\* self.state.shutdown_count += 1: the load
TriggerLoad(t) ==
    /\ pc[t] = "t_load"
    /\ frame' = [frame EXCEPT ![t].cnt = state.shutdown_count]
    /\ pc' = [pc EXCEPT ![t] = "t_store"]
    /\ UNCHANGED <<engine, handed, authorization, config,
                   state, lifecycle, registry, histories, logs, clock,
                   budget, raised>>

\* self.state.shutdown_count += 1: the store; then
\* self.state.safety_level = SafetyLevel.EMERGENCY
TriggerStore(t) ==
    /\ pc[t] = "t_store"
    /\ state' = [state EXCEPT !.shutdown_count = frame[t].cnt + 1,
                              !.safety_level = EMERGENCY]
    /\ frame' = [frame EXCEPT ![t].i = 1]
    /\ pc' = [pc EXCEPT ![t] = "t_cb"]
    /\ UNCHANGED <<engine, handed, authorization, config,
                   lifecycle, registry, histories, logs, clock, budget,
                   raised>>

\* TriggerCallback without the try/except around the call: the exception of
\* a raising callback leaves the trigger, to the caller context or to the
\* except clause of the monitoring loop.
TriggerCallbackUnguarded(t) ==
    /\ pc[t] = "t_cb"
    /\ frame[t].i <= Len(shutdown_callbacks)
    /\ shutdown_log' =
          Append(shutdown_log, Invocation(t, frame[t].i, frame[t].reason))
    /\ IF shutdown_callbacks[frame[t].i] = "raises"
       THEN IF frame[t].ret = "idle"
            THEN /\ pc' = [pc EXCEPT ![t] = "idle"]
                 /\ frame' = [frame EXCEPT ![t] = EmptyFrame]
                 /\ raised' = "Exception"
            ELSE /\ pc' = [pc EXCEPT ![t] = "t_check"]
                 /\ frame' = [frame EXCEPT
                                ![t] = Call(Returned(t), SYSTEM_FAILURE, "sleep")]
                 /\ UNCHANGED raised
       ELSE /\ frame' = [frame EXCEPT ![t].i = @ + 1]
            /\ UNCHANGED <<pc, raised>>
    /\ UNCHANGED <<engine, handed, authorization, config,
                   state, lifecycle, registry, histories, alert_log,
                   clock, budget>>

\* for callback in self._shutdown_callbacks: try: callback(reason) ...
\* One iteration. The list iterator indexes the live list. A reentrant
\* callback calls the trigger from inside: that call returns at once when
\* is_emergency is set, and otherwise runs the whole trigger (flag, time,
\* count, level, every callback, the alert) before the callback returns.
TriggerCallback(t) ==
    /\ pc[t] = "t_cb"
    /\ frame[t].i <= Len(shutdown_callbacks)
    /\ LET i == frame[t].i
           reenters == shutdown_callbacks[i] = "reentrant" /\ ~state.is_emergency
           logged == Append(shutdown_log, Invocation(t, i, frame[t].reason))
       IN  /\ shutdown_log' =
                IF reenters
                THEN logged \o [k \in 1..Len(shutdown_callbacks) |->
                                    Invocation(t, k, MANUAL_OVERRIDE)]
                ELSE logged
           /\ state' =
                IF reenters
                THEN [state EXCEPT !.is_emergency = TRUE,
                                   !.last_shutdown = clock,
                                   !.shutdown_count = @ + 1,
                                   !.safety_level = EMERGENCY]
                ELSE state
           /\ clock' = IF reenters THEN clock + 1 ELSE clock
           /\ alert_log' =
                IF reenters
                THEN SendAlert(alert_log, t, EMERGENCY, "EMERGENCY SHUTDOWN",
                               MANUAL_OVERRIDE)
                ELSE alert_log
           /\ frame' = [frame EXCEPT ![t].i = i + 1]
    /\ UNCHANGED <<engine, handed, authorization, config,
                   lifecycle, registry, histories, pc, budget, raised>>

\* The callback loop is exhausted: self._send_alert(EMERGENCY, ...); return
TriggerAlert(t) ==
    /\ pc[t] = "t_cb"
    /\ frame[t].i > Len(shutdown_callbacks)
    /\ alert_log' = SendAlert(alert_log, t, EMERGENCY, "EMERGENCY SHUTDOWN",
                              frame[t].reason)
    /\ pc' = [pc EXCEPT ![t] = frame[t].ret]
    /\ frame' = [frame EXCEPT ![t] = Returned(t)]
    /\ UNCHANGED <<engine, handed, authorization, config,
                   state, lifecycle, registry, histories, shutdown_log,
                   clock, budget, raised>>

\* A caller context calls the trigger (as the tests do).
ManualTrigger(reason) ==
    /\ CallerCalls
    /\ pc' = [pc EXCEPT ![Main] = "t_check"]
    /\ frame' = [frame EXCEPT ![Main] = Call(EmptyFrame, reason, "idle")]
    /\ raised' = "none"
    /\ UNCHANGED <<engine, handed, authorization, config,
                   state, lifecycle, registry, histories, logs, clock,
                   ticks, spawned>>

\* ------------------------------------------------------- monitoring tick
\* Record that keeps the oldest readings when it trims.
RecordKeepOldest(readings, x) ==
    LET appended == Append(readings, x)
    IN  IF Len(appended) > HistoryCap
        THEN SubSeq(appended, 1, HistoryKeep)
        ELSE appended

\* readings.append(x); if len(readings) > 1000: readings = readings[-500:]
Record(readings, x) ==
    LET appended == Append(readings, x)
    IN  IF Len(appended) > HistoryCap
        THEN SubSeq(appended, Len(appended) - HistoryKeep + 1, Len(appended))
        ELSE appended

\* _initiate_throttling, _limit_current, _disconnect_neural_interface: the
\* actuation hooks only log; the frame records that the tick invoked them.
Hooked(f, hook) == [f EXCEPT !.hooks = Append(@, hook)]

\* TickBegin of a loop that idles while the monitor is in emergency.
TickBeginUnlessEmergency(t, maxTicks) ==
    /\ pc[t] = "head"
    /\ ~stop_event
    /\ ~state.is_emergency
    /\ ticks < maxTicks
    /\ ticks' = ticks + 1
    /\ pc' = [pc EXCEPT ![t] = "thermal"]
    /\ frame' = [frame EXCEPT ![t].pre = state.is_emergency]
    /\ UNCHANGED <<engine, handed, authorization, config, state, lifecycle,
                   registry, histories, logs, clock, spawned, raised>>

\* while not self._stop_event.is_set(): the event is clear, a tick begins.
TickBegin(t, maxTicks) ==
    /\ pc[t] = "head"
    /\ ~stop_event
    /\ ticks < maxTicks
    /\ ticks' = ticks + 1
    /\ pc' = [pc EXCEPT ![t] = "thermal"]
    /\ frame' = [frame EXCEPT ![t].pre = state.is_emergency]
    /\ UNCHANGED <<engine, handed, authorization, config,
                   state, lifecycle, registry, histories, logs, clock,
                   spawned, raised>>

\* LoopExit that honours the stop event wherever the thread is.
LoopExitAnywhere(t) ==
    /\ pc[t] \notin {"unborn", "done"}
    /\ stop_event
    /\ pc' = [pc EXCEPT ![t] = "done"]
    /\ UNCHANGED <<engine, handed, authorization, config,
                   state, lifecycle, registry, histories, frame, logs,
                   clock, budget, raised>>

\* while not self._stop_event.is_set(): the event is set, the thread ends.
LoopExit(t) ==
    /\ pc[t] = "head"
    /\ stop_event
    /\ pc' = [pc EXCEPT ![t] = "done"]
    /\ UNCHANGED <<engine, handed, authorization, config,
                   state, lifecycle, registry, histories, frame, logs,
                   clock, budget, raised>>

\* CheckThermal whose warning tier throttles too.
CheckThermalAlwaysThrottles(t, temp) ==
    /\ pc[t] = "thermal"
    /\ state' = [state EXCEPT !.current_temperature = temp]
    /\ temperature_readings' = Record(temperature_readings, temp)
    /\ LET f == [frame[t] EXCEPT !.sampled = @ \cup {"thermal"}]
       IN  IF temp >= thermal.emergency_threshold
           THEN /\ pc' = [pc EXCEPT ![t] = "t_check"]
                /\ frame' = [frame EXCEPT ![t] = Call(f, THERMAL_RUNAWAY, "power")]
                /\ UNCHANGED alert_log
           ELSE /\ pc' = [pc EXCEPT ![t] = "power"]
                /\ IF temp >= thermal.critical_threshold
                   THEN /\ alert_log' = SendAlert(alert_log, t, CRITICAL,
                                            "Temperature critical", ToString(temp))
                        /\ frame' = [frame EXCEPT ![t] = Hooked(f, "throttle")]
                   ELSE IF temp >= thermal.throttling_threshold
                   THEN /\ alert_log' = SendAlert(alert_log, t, WARNING,
                                            "Temperature elevated", ToString(temp))
                        /\ frame' = [frame EXCEPT ![t] = Hooked(f, "throttle")]
                   ELSE IF temp >= thermal.warning_threshold
                   THEN /\ alert_log' = SendAlert(alert_log, t, WARNING,
                                            "Temperature rising", ToString(temp))
                        /\ frame' = [frame EXCEPT ![t] = Hooked(f, "throttle")]
                   ELSE /\ frame' = [frame EXCEPT ![t] = f]
                        /\ UNCHANGED alert_log
    /\ UNCHANGED <<engine, handed, authorization, config,
                   lifecycle, registry, current_readings,
                   neural_readings, shutdown_log, clock, budget, raised>>

\* _check_thermal_safety, the sensor having returned temp.
CheckThermal(t, temp) ==
    /\ pc[t] = "thermal"
    /\ state' = [state EXCEPT !.current_temperature = temp]
    /\ temperature_readings' = Record(temperature_readings, temp)
    /\ LET f == [frame[t] EXCEPT !.sampled = @ \cup {"thermal"}]
       IN  IF temp >= thermal.emergency_threshold
           THEN /\ pc' = [pc EXCEPT ![t] = "t_check"]
                /\ frame' = [frame EXCEPT ![t] = Call(f, THERMAL_RUNAWAY, "power")]
                /\ UNCHANGED alert_log
           ELSE /\ pc' = [pc EXCEPT ![t] = "power"]
                /\ IF temp >= thermal.critical_threshold
                   THEN /\ alert_log' = SendAlert(alert_log, t, CRITICAL,
                                            "Temperature critical", ToString(temp))
                        /\ frame' = [frame EXCEPT ![t] = Hooked(f, "throttle")]
                   ELSE IF temp >= thermal.throttling_threshold
                   THEN /\ alert_log' = SendAlert(alert_log, t, WARNING,
                                            "Temperature elevated", ToString(temp))
                        /\ frame' = [frame EXCEPT ![t] = Hooked(f, "throttle")]
                   ELSE IF temp >= thermal.warning_threshold
                   THEN /\ alert_log' = SendAlert(alert_log, t, WARNING,
                                            "Temperature rising", ToString(temp))
                        /\ frame' = [frame EXCEPT ![t] = f]
                   ELSE /\ frame' = [frame EXCEPT ![t] = f]
                        /\ UNCHANGED alert_log
    /\ UNCHANGED <<engine, handed, authorization, config,
                   lifecycle, registry, current_readings,
                   neural_readings, shutdown_log, clock, budget, raised>>

\* CheckPower whose highest tier only alerts, like the tier below it.
CheckPowerAlertOnly(t, current) ==
    /\ pc[t] = "power"
    /\ state' = [state EXCEPT !.current_current_ma = current]
    /\ current_readings' = Record(current_readings, current)
    /\ pc' = [pc EXCEPT ![t] = "neural"]
    /\ LET f == [frame[t] EXCEPT !.sampled = @ \cup {"power"}]
       IN  IF current >= power.critical_current_ma
           THEN /\ alert_log' = SendAlert(alert_log, t, CRITICAL,
                                    "Current critical", ToString(current))
                /\ frame' = [frame EXCEPT ![t] = Hooked(f, "limit_current")]
           ELSE /\ frame' = [frame EXCEPT ![t] = f]
                /\ UNCHANGED alert_log
    /\ UNCHANGED <<engine, handed, authorization, config,
                   lifecycle, registry, temperature_readings,
                   neural_readings, shutdown_log, clock, budget, raised>>

\* _check_power_safety, the sensor having returned current.
CheckPower(t, current) ==
    /\ pc[t] = "power"
    /\ state' = [state EXCEPT !.current_current_ma = current]
    /\ current_readings' = Record(current_readings, current)
    /\ LET f == [frame[t] EXCEPT !.sampled = @ \cup {"power"}]
       IN  IF current >= power.max_current_ma
           THEN /\ pc' = [pc EXCEPT ![t] = "t_check"]
                /\ frame' = [frame EXCEPT ![t] = Call(f, POWER_SURGE, "neural")]
                /\ UNCHANGED alert_log
           ELSE /\ pc' = [pc EXCEPT ![t] = "neural"]
                /\ IF current >= power.critical_current_ma
                   THEN /\ alert_log' = SendAlert(alert_log, t, CRITICAL,
                                            "Current critical", ToString(current))
                        /\ frame' = [frame EXCEPT ![t] = Hooked(f, "limit_current")]
                   ELSE /\ frame' = [frame EXCEPT ![t] = f]
                        /\ UNCHANGED alert_log
    /\ UNCHANGED <<engine, handed, authorization, config,
                   lifecycle, registry, temperature_readings,
                   neural_readings, shutdown_log, clock, budget, raised>>

\* CheckNeural whose highest tier only alerts, like the tier below it.
CheckNeuralAlertOnly(t, neural_activity) ==
    /\ pc[t] = "neural"
    /\ state' = [state EXCEPT !.neural_activity_uv = neural_activity]
    /\ neural_readings' = Record(neural_readings, neural_activity)
    /\ pc' = [pc EXCEPT ![t] = "update"]
    /\ LET f == [frame[t] EXCEPT !.sampled = @ \cup {"neural"}]
       IN  IF neural_activity >= neural.seizure_threshold_uv
           THEN /\ alert_log' = SendAlert(alert_log, t, CRITICAL,
                                    "Neural anomaly detected",
                                    ToString(neural_activity))
                /\ frame' = [frame EXCEPT ![t] = Hooked(f, "disconnect")]
           ELSE /\ frame' = [frame EXCEPT ![t] = f]
                /\ UNCHANGED alert_log
    /\ UNCHANGED <<engine, handed, authorization, config,
                   lifecycle, registry, temperature_readings,
                   current_readings, shutdown_log, clock, budget, raised>>

\* _check_neural_safety, the sensor having returned neural_activity.
CheckNeural(t, neural_activity) ==
    /\ pc[t] = "neural"
    /\ state' = [state EXCEPT !.neural_activity_uv = neural_activity]
    /\ neural_readings' = Record(neural_readings, neural_activity)
    /\ LET f == [frame[t] EXCEPT !.sampled = @ \cup {"neural"}]
       IN  IF neural_activity >= neural.critical_threshold_uv
           THEN /\ pc' = [pc EXCEPT ![t] = "t_check"]
                /\ frame' = [frame EXCEPT ![t] = Call(f, NEURAL_ANOMALY, "update")]
                /\ UNCHANGED alert_log
           ELSE /\ pc' = [pc EXCEPT ![t] = "update"]
                /\ IF neural_activity >= neural.seizure_threshold_uv
                   THEN /\ alert_log' = SendAlert(alert_log, t, CRITICAL,
                                            "Neural anomaly detected",
                                            ToString(neural_activity))
                        /\ frame' = [frame EXCEPT ![t] = Hooked(f, "disconnect")]
                   ELSE /\ frame' = [frame EXCEPT ![t] = f]
                        /\ UNCHANGED alert_log
    /\ UNCHANGED <<engine, handed, authorization, config,
                   lifecycle, registry, temperature_readings,
                   current_readings, shutdown_log, clock, budget, raised>>

\* SensorFault without the loop's except clause: the exception ends the
\* monitoring thread.
SensorFaultUncaught(t) ==
    /\ pc[t] \in {"thermal", "power", "neural"}
    /\ pc' = [pc EXCEPT ![t] = "done"]
    /\ frame' = [frame EXCEPT ![t] = EmptyFrame]
    /\ UNCHANGED <<engine, handed, authorization, config,
                   state, lifecycle, registry, histories, logs, clock,
                   budget, raised>>

\* A sensor read raises inside _check_all_sensors: the loop's
\*   except Exception: self._trigger_emergency_shutdown(SYSTEM_FAILURE)
\* runs; the trigger returns to the loop's sleep.
SensorFault(t) ==
    /\ pc[t] \in {"thermal", "power", "neural"}
    /\ pc' = [pc EXCEPT ![t] = "t_check"]
    /\ frame' = [frame EXCEPT ![t] =
                    Call([frame[t] EXCEPT !.fault = TRUE], SYSTEM_FAILURE, "sleep")]
    /\ UNCHANGED <<engine, handed, authorization, config,
                   state, lifecycle, registry, histories, logs, clock,
                   budget, raised>>

\* The levels _update_safety_level collects from the three readings.
ChannelLevels ==
    {NORMAL}
    \cup (IF state.current_temperature >= thermal.warning_threshold
          THEN {WARNING} ELSE {})
    \cup (IF state.current_temperature >= thermal.critical_threshold
          THEN {CRITICAL} ELSE {})
    \cup (IF state.current_current_ma >= power.warning_current_ma
          THEN {WARNING} ELSE {})
    \cup (IF state.current_current_ma >= power.critical_current_ma
          THEN {CRITICAL} ELSE {})
    \cup (IF state.neural_activity_uv >= neural.seizure_threshold_uv
          THEN {CRITICAL} ELSE {})

\* UpdateCheck with a level that only rises: the level in force is one of the
\* levels the maximum is taken of.
UpdateCheckSticky(t) ==
    /\ pc[t] = "update"
    /\ IF state.is_emergency
       THEN /\ state' = [state EXCEPT !.safety_level = EMERGENCY]
            /\ pc' = [pc EXCEPT ![t] = "sleep"]
            /\ UNCHANGED frame
       ELSE /\ frame' = [frame EXCEPT
                  ![t].lvl = MaxLevel(ChannelLevels \cup {state.safety_level})]
            /\ pc' = [pc EXCEPT ![t] = "write"]
            /\ UNCHANGED state
    /\ UNCHANGED <<engine, handed, authorization, config,
                   lifecycle, registry, histories, logs, clock, budget,
                   raised>>

\* UpdateCheck with the emergency flag cleared once every reading is back
\* below its warning threshold (an auto-reset the source does not have).
UpdateCheckAutoClear(t) ==
    /\ pc[t] = "update"
    /\ IF state.is_emergency /\ ChannelLevels # {NORMAL}
       THEN /\ state' = [state EXCEPT !.safety_level = EMERGENCY]
            /\ pc' = [pc EXCEPT ![t] = "sleep"]
            /\ UNCHANGED frame
       ELSE /\ frame' = [frame EXCEPT ![t].lvl = MaxLevel(ChannelLevels)]
            /\ state' = [state EXCEPT !.is_emergency = FALSE]
            /\ pc' = [pc EXCEPT ![t] = "write"]
    /\ UNCHANGED <<engine, handed, authorization, config,
                   lifecycle, registry, histories, logs, clock, budget,
                   raised>>

\* _update_safety_level up to its last statement: is_emergency is read; when
\* set, the level is written EMERGENCY and the method returns; otherwise the
\* levels are collected.
UpdateCheck(t) ==
    /\ pc[t] = "update"
    /\ IF state.is_emergency
       THEN /\ state' = [state EXCEPT !.safety_level = EMERGENCY]
            /\ pc' = [pc EXCEPT ![t] = "sleep"]
            /\ UNCHANGED frame
       ELSE /\ frame' = [frame EXCEPT ![t].lvl = MaxLevel(ChannelLevels)]
            /\ pc' = [pc EXCEPT ![t] = "write"]
            /\ UNCHANGED state
    /\ UNCHANGED <<engine, handed, authorization, config,
                   lifecycle, registry, histories, logs, clock, budget,
                   raised>>

\* self.state.safety_level = max(levels, ...)
UpdateWrite(t) ==
    /\ pc[t] = "write"
    /\ state' = [state EXCEPT !.safety_level = frame[t].lvl]
    /\ pc' = [pc EXCEPT ![t] = "sleep"]
    /\ UNCHANGED <<engine, handed, authorization, config,
                   lifecycle, registry, histories, frame, logs, clock,
                   budget, raised>>

\* time.sleep(...): the tick is over (in emergency the loop sleeps 0.1 s and
\* continues, otherwise it sleeps for the monitoring interval).
TickEnd(t) ==
    /\ pc[t] = "sleep"
    /\ pc' = [pc EXCEPT ![t] = "head"]
    /\ frame' = [frame EXCEPT ![t] = EmptyFrame]
    /\ UNCHANGED <<engine, handed, authorization, config,
                   state, lifecycle, registry, histories, logs, clock,
                   budget, raised>>

\* ---------------------------------------------------------------- lifecycle
\* _validate_thresholds raises ValueError
ThresholdsInvalid ==
    \/ thermal.emergency_threshold > thermal.max_allowed
    \/ power.current_limit_ma > power.max_current_ma

\* Initialize validating the thermal table only.
InitializeThermalOnly ==
    /\ CallerCalls
    /\ IF thermal.emergency_threshold > thermal.max_allowed
       THEN /\ raised' = "ValueError"
            /\ UNCHANGED is_initialized
       ELSE /\ raised' = "none"
            /\ is_initialized' = TRUE
    /\ UNCHANGED <<engine, handed, authorization, config, state, is_running,
                   stop_event, monitoring_thread, registry, histories, pc,
                   frame, logs, clock, ticks, spawned>>

\* initialize()
Initialize ==
    /\ CallerCalls
    /\ IF ThresholdsInvalid
       THEN /\ raised' = "ValueError"
            /\ UNCHANGED is_initialized
       ELSE /\ raised' = "none"
            /\ is_initialized' = TRUE
    /\ UNCHANGED <<engine, handed, authorization, config, state, is_running,
                   stop_event, monitoring_thread, registry, histories, pc,
                   frame, logs, clock, ticks, spawned>>

\* The spawning branch of start().
Spawn(maxTasks) ==
    /\ spawned < maxTasks
    /\ raised' = "none"
    /\ is_running' = TRUE
    /\ state' = [state EXCEPT !.is_active = TRUE]
    /\ stop_event' = FALSE
    /\ spawned' = spawned + 1
    /\ monitoring_thread' = spawned + 1
    /\ pc' = [pc EXCEPT ![spawned + 1] = "head"]

\* Start without the test of _is_initialized.
StartUninitialized(maxTasks) ==
    /\ CallerCalls
    /\ IF is_running
       THEN /\ raised' = "warned"
            /\ UNCHANGED <<state, is_running, stop_event, monitoring_thread,
                           pc, spawned>>
       ELSE Spawn(maxTasks)
    /\ UNCHANGED <<engine, handed, authorization, config,
                   is_initialized, registry, histories, frame, logs,
                   clock, ticks>>

\* Start without the test of _is_running.
StartAgain(maxTasks) ==
    /\ CallerCalls
    /\ IF ~is_initialized
       THEN /\ raised' = "RuntimeError"
            /\ UNCHANGED <<state, is_running, stop_event, monitoring_thread,
                           pc, spawned>>
       ELSE Spawn(maxTasks)
    /\ UNCHANGED <<engine, handed, authorization, config,
                   is_initialized, registry, histories, frame, logs,
                   clock, ticks>>

\* start(): not initialized, it raises RuntimeError; already running, it
\* logs a warning and returns; otherwise it spawns the monitoring thread.
Start(maxTasks) ==
    /\ CallerCalls
    /\ IF ~is_initialized
       THEN /\ raised' = "RuntimeError"
            /\ UNCHANGED <<state, is_running, stop_event, monitoring_thread,
                           pc, spawned>>
       ELSE IF is_running
       THEN /\ raised' = "warned"
            /\ UNCHANGED <<state, is_running, stop_event, monitoring_thread,
                           pc, spawned>>
       ELSE Spawn(maxTasks)
    /\ UNCHANGED <<engine, handed, authorization, config,
                   is_initialized, registry, histories, frame, logs,
                   clock, ticks>>

\* stop() up to the join.
Stop ==
    /\ CallerCalls
    /\ raised' = "none"
    /\ is_running' = FALSE
    /\ state' = [state EXCEPT !.is_active = FALSE]
    /\ stop_event' = TRUE
    /\ pc' = [pc EXCEPT ![Main] = IF monitoring_thread # 0 THEN "join" ELSE "idle"]
    /\ UNCHANGED <<engine, handed, authorization, config,
                   is_initialized, monitoring_thread, registry,
                   histories, frame, logs, clock, ticks, spawned>>

\* self._monitoring_thread.join(timeout=2.0) returns because the thread has
\* ended; self._monitoring_thread = None
Join ==
    /\ pc[Main] = "join"
    /\ pc[monitoring_thread] = "done"
    /\ monitoring_thread' = 0
    /\ pc' = [pc EXCEPT ![Main] = "idle"]
    /\ UNCHANGED <<engine, handed, authorization, config,
                   state, is_initialized, is_running, stop_event,
                   registry, histories, frame, logs, clock, budget, raised>>

\* The next step of thread t begins with a call that can block for any
\* length of time: a sensor read or a shutdown callback.
Blocked(t) == pc[t] \in {"thermal", "power", "neural", "t_cb"}

\* self._monitoring_thread.join(timeout=2.0) returns because the two seconds
\* have passed while the thread is blocked inside its tick;
\* self._monitoring_thread = None
JoinTimeout ==
    /\ pc[Main] = "join"
    /\ Blocked(monitoring_thread)
    /\ monitoring_thread' = 0
    /\ pc' = [pc EXCEPT ![Main] = "idle"]
    /\ UNCHANGED <<engine, handed, authorization, config, state,
                   is_initialized, is_running, stop_event, registry,
                   histories, frame, logs, clock, budget, raised>>

\* ------------------------------------------------------- authorization gate
\* check_process_authorization(name) is called by caller context c, while
\* the violations logged and the calls under way are fewer than maxChecks.
CheckCall(c, name, maxChecks) ==
    /\ gate[c].at = "idle"
    /\ Len(process_violations) + Cardinality({d \in Callers : gate[d].at # "idle"})
          < maxChecks
    /\ gate' = [gate EXCEPT ![c] = [at |-> "scan", name |-> name, i |-> 1,
                                     cnt |-> 0, logged |-> 0,
                                     result |-> "none"]]
    /\ UNCHANGED <<engine, handed, config, state, lifecycle, registry,
                   histories, pc, frame, logs, clock, budget, raised,
                   restricted_processes, process_violations>>

\* for restriction in self._restricted_processes: if re.match(...):
\* One iteration of the loop up to the read of total_violations; the list
\* iterator indexes the live list. Past the end of the list: return True.
CheckScan(c) ==
    /\ gate[c].at = "scan"
    /\ LET g == gate[c] IN
       gate' = [gate EXCEPT ![c] =
          IF g.i > Len(restricted_processes)
          THEN [g EXCEPT !.at = "idle", !.result = "authorized"]
          ELSE IF re_match(restricted_processes[g.i].pattern, g.name)
          THEN [g EXCEPT !.at = "store", !.cnt = state.total_violations]
          ELSE [g EXCEPT !.i = @ + 1]]
    /\ UNCHANGED <<engine, handed, config, state, lifecycle, registry,
                   histories, pc, frame, logs, clock, budget, raised,
                   restricted_processes, process_violations>>

\* self.state.total_violations += 1: the write of the incremented value.
CheckStore(c) ==
    /\ gate[c].at = "store"
    /\ state' = [state EXCEPT !.total_violations = gate[c].cnt + 1]
    /\ gate' = [gate EXCEPT ![c].at = "append"]
    /\ UNCHANGED <<engine, handed, config, lifecycle, registry, histories, pc,
                   frame, logs, clock, budget, raised, restricted_processes,
                   process_violations>>

\* CheckAppend that puts the monitor in emergency when the matched
\* restriction has EMERGENCY risk.
CheckAppendEscalating(c) ==
    /\ gate[c].at = "append"
    /\ LET g == gate[c]
           r == restricted_processes[g.i]
       IN  /\ process_violations' =
                 Append(process_violations,
                        [process |-> g.name, restriction |-> r.name,
                         risk_level |-> r.risk_level, by |-> c])
           /\ state' = IF r.risk_level = EMERGENCY
                       THEN [state EXCEPT !.is_emergency = TRUE,
                                          !.safety_level = EMERGENCY]
                       ELSE state
           /\ gate' = [gate EXCEPT ![c] =
                 IF ~r.allowed_with_safeguards \/ r.requires_authorization
                 THEN [g EXCEPT !.at = "idle", !.logged = @ + 1,
                                !.result = "denied"]
                 ELSE [g EXCEPT !.at = "scan", !.logged = @ + 1,
                                !.i = @ + 1]]
    /\ UNCHANGED <<engine, handed, config, lifecycle, registry, histories, pc,
                   frame, logs, clock, budget, raised, restricted_processes>>

\* CheckAppend that denies for a hard block only: a match that is allowed
\* with safeguards passes although it requires authorization.
CheckAppendHardBlockOnly(c) ==
    /\ gate[c].at = "append"
    /\ LET g == gate[c]
           r == restricted_processes[g.i]
       IN  /\ process_violations' =
                 Append(process_violations,
                        [process |-> g.name, restriction |-> r.name,
                         risk_level |-> r.risk_level, by |-> c])
           /\ gate' = [gate EXCEPT ![c] =
                 IF ~r.allowed_with_safeguards
                 THEN [g EXCEPT !.at = "idle", !.logged = @ + 1,
                                !.result = "denied"]
                 ELSE [g EXCEPT !.at = "scan", !.logged = @ + 1,
                                !.i = @ + 1]]
    /\ UNCHANGED <<engine, handed, config, state, lifecycle, registry,
                   histories, pc, frame, logs, clock, budget, raised,
                   restricted_processes>>

\* self._process_violations.append({...}), then the decision: a restriction
\* not allowed with safeguards, or one that requires authorization, returns
\* False; any other match lets the loop go on with the next restriction.
CheckAppend(c) ==
    /\ gate[c].at = "append"
    /\ LET g == gate[c]
           r == restricted_processes[g.i]
       IN  /\ process_violations' =
                 Append(process_violations,
                        [process |-> g.name, restriction |-> r.name,
                         risk_level |-> r.risk_level, by |-> c])
           /\ gate' = [gate EXCEPT ![c] =
                 IF ~r.allowed_with_safeguards \/ r.requires_authorization
                 THEN [g EXCEPT !.at = "idle", !.logged = @ + 1,
                                !.result = "denied"]
                 ELSE [g EXCEPT !.at = "scan", !.logged = @ + 1,
                                !.i = @ + 1]]
    /\ UNCHANGED <<engine, handed, config, state, lifecycle, registry,
                   histories, pc, frame, logs, clock, budget, raised,
                   restricted_processes>>

\* add_restricted_process(restriction)
AddRestrictedProcess(restriction, maxAdded) ==
    /\ Len(restricted_processes) < Len(DEFAULT_RESTRICTED_PROCESSES) + maxAdded
    /\ restricted_processes' = Append(restricted_processes, restriction)
    /\ UNCHANGED <<engine, handed, config, state, lifecycle, registry,
                   histories, pc, frame, logs, clock, budget, raised,
                   process_violations, gate>>

\* A step of caller context c inside the authorization check.
Check(c) == CheckScan(c) \/ CheckStore(c) \/ CheckAppend(c)

\* The authorization gate of a constructed monitor: caller contexts call the
\* check with any of the names, their calls interleaving statement by
\* statement, and restrictions are added to the defaults.
GateNext ==
    \/ \E c \in Callers, name \in ProcessNames : CheckCall(c, name, MaxChecks)
    \/ \E c \in Callers : Check(c)
    \/ \E restriction \in AddedRestrictions :
          AddRestrictedProcess(restriction, MaxAdded)

GateInit == Construct({DefaultThermal}, {DefaultPower}, {DefaultNeural})

GateSpec == GateInit /\ [][GateNext]_vars

\* ------------------------------------------------------- metrics and state
\* get_state(): return self.state -- the caller receives the monitor's own
\* SafetyState object.
GetState ==
    /\ CallerCalls
    /\ returned_state' = SelfState
    /\ raised' = "none"
    /\ UNCHANGED <<engine, returned_log, authorization, config, state,
                   lifecycle, registry, histories, pc, frame, logs, clock,
                   budget>>

\* The SafetyState an object reference leads to.
StateAt(ref) == IF ref = SelfState THEN state ELSE InitialSafetyState

\* Attribute assignments a caller makes on a SafetyState it holds (the
\* dataclass is not frozen).
StateWrites ==
    {[field |-> "is_emergency", value |-> FALSE],
     [field |-> "safety_level", value |-> NORMAL],
     [field |-> "total_violations", value |-> 0]}

\* The caller assigns an attribute of the object get_state() returned, while
\* fewer than maxShutdowns shutdowns have been counted.
WriteReturnedState(w, maxShutdowns) ==
    /\ CallerCalls
    /\ returned_state = SelfState
    /\ state.shutdown_count < maxShutdowns
    /\ state' = [state EXCEPT ![w.field] = w.value]
    /\ raised' = "none"
    /\ UNCHANGED <<engine, handed, authorization, config, lifecycle, registry,
                   histories, pc, frame, logs, clock, budget>>

\* get_violation_log returning the monitor's own list.
GetViolationLogShared ==
    /\ CallerCalls
    /\ returned_log' = [ref |-> SelfViolations, items |-> <<>>]
    /\ raised' = "none"
    /\ UNCHANGED <<engine, returned_state, authorization, config, state,
                   lifecycle, registry, histories, pc, frame, logs, clock,
                   budget>>

\* get_violation_log(): return self._process_violations.copy() -- a new list
\* with the entries the log holds at that moment.
GetViolationLog ==
    /\ CallerCalls
    /\ returned_log' = [ref |-> OwnList, items |-> process_violations]
    /\ raised' = "none"
    /\ UNCHANGED <<engine, returned_state, authorization, config, state,
                   lifecycle, registry, histories, pc, frame, logs, clock,
                   budget>>

\* The entries of the list a caller holds.
ItemsOf(held) ==
    IF held.ref = SelfViolations THEN process_violations ELSE held.items

\* What a caller does to a list it holds: list.append, list.pop, list.clear.
ListEdits == {"append", "pop", "clear"}
Edited(items, edit) ==
    CASE edit = "append" ->
            Append(items, [process |-> <<>>, restriction |-> "",
                           risk_level |-> NORMAL, by |-> Main])
      [] edit = "pop" -> SubSeq(items, 1, Len(items) - 1)
      [] edit = "clear" -> <<>>

\* The caller edits the list get_violation_log() returned (append while the
\* list is no longer than maxLen; pop on a list that is not empty).
EditReturnedLog(edit, maxLen) ==
    /\ CallerCalls
    /\ returned_log.ref # NoObject
    /\ edit = "append" => Len(ItemsOf(returned_log)) <= maxLen
    /\ edit = "pop" => ItemsOf(returned_log) # <<>>
    /\ IF returned_log.ref = SelfViolations
       THEN /\ process_violations' = Edited(process_violations, edit)
            /\ UNCHANGED returned_log
       ELSE /\ returned_log' = [returned_log EXCEPT !.items = Edited(@, edit)]
            /\ UNCHANGED process_violations
    /\ raised' = "none"
    /\ UNCHANGED <<engine, returned_state, restricted_processes, gate, config,
                   state, lifecycle, registry, histories, pc, frame, logs,
                   clock, budget>>

\* ------------------------------------------------------------------ engine
\* The subsystems ExcellenceEngine holds besides the safety monitor, in the
\* order initialize() builds them and start() starts them; stop() stops them
\* in the reverse order. process_decision passes the data through them in
\* this order too (encrypt, analyze, optimize, coordinate).
Subsystems ==
    <<"security_layer", "neural_engine", "excellence_system", "cognitive_fabric">>

\* The keyword arguments initialize() passes to each subsystem's constructor.
Keywords ==
    [security_layer |-> {"algorithm", "key_rotation_hours"},
     neural_engine |-> {"layers", "plasticity", "emotional_depth"},
     excellence_system |-> {"feedback_interval", "optimization_threshold"},
     cognitive_fabric |-> {"max_connections", "shared_learning_enabled"}]

\* The parameters each subsystem's __init__ declares.
Parameters ==
    [security_layer |-> {"config"},
     neural_engine |->
        {"layers", "neurons_per_layer", "plasticity", "emotional_depth"},
     excellence_system |-> {"feedback_interval", "optimization_threshold"},
     cognitive_fabric |-> {"max_connections", "shared_learning_enabled"}]

\* A call of the constructor returns an object; a keyword the constructor
\* does not declare raises TypeError.
Constructs(s) == Keywords[s] \subseteq Parameters[s]

\* What an attribute of the engine holds: None, or a subsystem object with
\* its _is_initialized and _is_running.
None == [exists |-> FALSE, is_initialized |-> FALSE, is_running |-> FALSE]
Subsystem == [exists |-> TRUE, is_initialized |-> FALSE, is_running |-> FALSE]

\* The monitor the engine holds in _safety_monitor.
SelfSafetyMonitor == "self._safety_monitor"

\* The outcome of a call of the engine: the call, and "none", "warned" or the
\* exception that left it.
Outcome(op, outcome) == [op |-> op, outcome |-> outcome]

\* ExcellenceEngine(config): EngineState() and no subsystem.
ExcellenceEngine(safety_monitor_enabled) ==
    [safety_monitor_enabled |-> safety_monitor_enabled,
     is_running |-> FALSE, safety_active |-> FALSE, decisions_made |-> 0,
     safety_monitor |-> NoObject,
     security_layer |-> None, neural_engine |-> None,
     excellence_system |-> None, cognitive_fabric |-> None,
     call |-> Outcome("__init__", "none")]

\* initialize() from subsystem i on: construct the subsystem, assign it,
\* await its initialize(). The exception of a constructor leaves the
\* attribute None and ends initialize().
RECURSIVE InitializeSubsystems(_, _)
InitializeSubsystems(e, i) ==
    IF i > Len(Subsystems) THEN [e EXCEPT !.call = Outcome("initialize", "none")]
    ELSE IF ~Constructs(Subsystems[i])
    THEN [e EXCEPT !.call = Outcome("initialize", "TypeError")]
    ELSE InitializeSubsystems(
            [e EXCEPT ![Subsystems[i]] = [Subsystem EXCEPT !.is_initialized = TRUE]],
            i + 1)

\* await subsystem.start(): None has no attribute start; a subsystem that is
\* not initialized raises RuntimeError; otherwise _is_running = True.
StartRaises(obj) ==
    IF ~obj.exists THEN "AttributeError"
    ELSE IF ~obj.is_initialized THEN "RuntimeError"
    ELSE "none"

\* start() from subsystem i on; the first exception ends start().
RECURSIVE StartSubsystems(_, _)
StartSubsystems(e, i) ==
    IF i > Len(Subsystems) THEN [e EXCEPT !.call = Outcome("start", "none")]
    ELSE IF StartRaises(e[Subsystems[i]]) # "none"
    THEN [e EXCEPT !.call = Outcome("start", StartRaises(e[Subsystems[i]]))]
    ELSE StartSubsystems([e EXCEPT ![Subsystems[i]].is_running = TRUE], i + 1)

\* stop() from subsystem i down: await subsystem.stop() sets _is_running =
\* False; None has no attribute stop, and the exception ends stop().
RECURSIVE StopSubsystems(_, _)
StopSubsystems(e, i) ==
    IF i < 1 THEN [e EXCEPT !.call = Outcome("stop", "none")]
    ELSE IF ~e[Subsystems[i]].exists
    THEN [e EXCEPT !.call = Outcome("stop", "AttributeError")]
    ELSE StopSubsystems([e EXCEPT ![Subsystems[i]].is_running = FALSE], i - 1)

\* The four steps of process_decision from step i on: each calls a method of
\* one subsystem, which raises AttributeError on None and RuntimeError on a
\* subsystem that is not running. (What the steps do to the data is left
\* out.)
RECURSIVE Pipeline(_, _)
Pipeline(e, i) ==
    IF i > Len(Subsystems) THEN "none"
    ELSE IF ~e[Subsystems[i]].exists THEN "AttributeError"
    ELSE IF ~e[Subsystems[i]].is_running THEN "RuntimeError"
    ELSE Pipeline(e, i + 1)

\* engine.initialize(), called on an engine that holds no monitor yet. With
\* the monitor enabled: construct the monitor from the configured thresholds,
\* await its initialize() (ValueError for invalid thresholds), register
\* _on_emergency_shutdown (a callback that returns) as shutdown callback.
\* Then the other subsystems. (state.safety_emergency,
\* which that callback sets, is left out.)
EngineInitialize ==
    /\ CallerCalls
    /\ engine.safety_monitor = NoObject
    /\ IF ~engine.safety_monitor_enabled
       THEN /\ engine' = InitializeSubsystems(engine, 1)
            /\ UNCHANGED <<is_initialized, shutdown_callbacks, raised>>
       ELSE IF ThresholdsInvalid
       THEN /\ engine' = [engine EXCEPT !.safety_monitor = SelfSafetyMonitor,
                                        !.call = Outcome("initialize", "ValueError")]
            /\ raised' = "ValueError"
            /\ UNCHANGED <<is_initialized, shutdown_callbacks>>
       ELSE /\ engine' = InitializeSubsystems(
                            [engine EXCEPT !.safety_monitor = SelfSafetyMonitor], 1)
            /\ raised' = "none"
            /\ is_initialized' = TRUE
            /\ shutdown_callbacks' = Append(shutdown_callbacks, "ok")
    /\ UNCHANGED <<handed, authorization, config, state, is_running,
                   stop_event, monitoring_thread, alert_callbacks, histories,
                   pc, frame, logs, clock, budget>>

\* engine.start(): running already, it logs a warning and returns. Otherwise
\* state.is_running = True; the monitor, when the engine holds one, is
\* started first (RuntimeError when it is not initialized; a warning when it
\* runs already; else its thread is spawned) and state.safety_active = True;
\* then the other subsystems in order. An exception ends start() where it is
\* raised.
EngineStart(maxTasks) ==
    /\ CallerCalls
    /\ IF engine.is_running
       THEN /\ engine' = [engine EXCEPT !.call = Outcome("start", "warned")]
            /\ UNCHANGED <<state, is_running, stop_event, monitoring_thread,
                           pc, spawned, raised>>
       ELSE LET running == [engine EXCEPT !.is_running = TRUE]
                guarded == [running EXCEPT !.safety_active = TRUE]
            IN
            IF engine.safety_monitor = NoObject
            THEN /\ engine' = StartSubsystems(running, 1)
                 /\ UNCHANGED <<state, is_running, stop_event,
                                monitoring_thread, pc, spawned, raised>>
            ELSE IF ~is_initialized
            THEN /\ engine' = [running EXCEPT !.call = Outcome("start", "RuntimeError")]
                 /\ raised' = "RuntimeError"
                 /\ UNCHANGED <<state, is_running, stop_event,
                                monitoring_thread, pc, spawned>>
            ELSE IF is_running
            THEN /\ engine' = StartSubsystems(guarded, 1)
                 /\ raised' = "warned"
                 /\ UNCHANGED <<state, is_running, stop_event,
                                monitoring_thread, pc, spawned>>
            ELSE /\ Spawn(maxTasks)
                 /\ engine' = StartSubsystems(guarded, 1)
    /\ UNCHANGED <<handed, authorization, config, is_initialized, registry,
                   histories, frame, logs, clock, ticks>>

\* engine.stop(): not running, it logs a warning and returns. Otherwise
\* state.is_running = False, state.safety_active = False; the subsystems are
\* stopped in reverse order; last, when the engine holds a monitor, the
\* monitor's stop() up to its join. An exception ends stop() where it is
\* raised.
EngineStop ==
    /\ CallerCalls
    /\ IF ~engine.is_running
       THEN /\ engine' = [engine EXCEPT !.call = Outcome("stop", "warned")]
            /\ UNCHANGED <<state, is_running, stop_event, pc, raised>>
       ELSE LET stopped ==
                   StopSubsystems([engine EXCEPT !.is_running = FALSE,
                                                 !.safety_active = FALSE],
                                  Len(Subsystems))
            IN  /\ engine' = stopped
                /\ IF stopped.call.outcome = "none"
                      /\ engine.safety_monitor # NoObject
                   THEN /\ raised' = "none"
                        /\ is_running' = FALSE
                        /\ state' = [state EXCEPT !.is_active = FALSE]
                        /\ stop_event' = TRUE
                        /\ pc' = [pc EXCEPT ![Main] =
                              IF monitoring_thread # 0 THEN "join" ELSE "idle"]
                   ELSE UNCHANGED <<state, is_running, stop_event, pc, raised>>
    /\ UNCHANGED <<handed, authorization, config, is_initialized,
                   monitoring_thread, registry, histories, frame, logs, clock,
                   budget>>

\* process_decision without the test of state.is_running.
ProcessDecisionUnguarded(maxDecisions) ==
    /\ CallerCalls
    /\ engine.decisions_made < maxDecisions
    /\ engine' =
          IF Pipeline(engine, 1) # "none"
          THEN [engine EXCEPT
                   !.call = Outcome("process_decision", Pipeline(engine, 1))]
          ELSE [engine EXCEPT !.decisions_made = @ + 1,
                              !.call = Outcome("process_decision", "none")]
    /\ UNCHANGED <<handed, authorization, config, state, lifecycle, registry,
                   histories, pc, frame, logs, clock, budget, raised>>

\* process_decision(data), while fewer than maxDecisions decisions were made:
\* RuntimeError when state.is_running is false; else the four steps, and
\* state.decisions_made += 1 after the last.
ProcessDecision(maxDecisions) ==
    /\ CallerCalls
    /\ engine.decisions_made < maxDecisions
    /\ engine' =
          IF ~engine.is_running
          THEN [engine EXCEPT !.call = Outcome("process_decision", "RuntimeError")]
          ELSE IF Pipeline(engine, 1) # "none"
          THEN [engine EXCEPT
                   !.call = Outcome("process_decision", Pipeline(engine, 1))]
          ELSE [engine EXCEPT !.decisions_made = @ + 1,
                              !.call = Outcome("process_decision", "none")]
    /\ UNCHANGED <<handed, authorization, config, state, lifecycle, registry,
                   histories, pc, frame, logs, clock, budget, raised>>

\* ------------------------------------------------------------ specification
\* A step of thread t inside the trigger.
Trigger(t) ==
    \/ TriggerCheck(t)
    \/ TriggerFlag(t)
    \/ TriggerLoad(t)
    \/ TriggerStore(t)
    \/ TriggerCallback(t)
    \/ TriggerAlert(t)

\* A step of monitoring thread t outside the trigger, the sensors returning
\* values of the given sets.
Loop(t, maxTicks, temps, currents, neurals) ==
    \/ TickBegin(t, maxTicks)
    \/ LoopExit(t)
    \/ \E temp \in temps : CheckThermal(t, temp)
    \/ \E current \in currents : CheckPower(t, current)
    \/ \E neural_activity \in neurals : CheckNeural(t, neural_activity)
    \/ SensorFault(t)
    \/ UpdateCheck(t)
    \/ UpdateWrite(t)
    \/ TickEnd(t)

\* The lifecycle calls of the caller context.
Lifecycle(maxTasks) ==
    \/ Initialize
    \/ Start(maxTasks)
    \/ Stop
    \/ Join

\* The monitor with its threads interleaving freely: the caller context makes
\* its calls while the monitoring thread is anywhere in its tick. The
\* temperature sensor returns a safe or a red-line value or raises; the other
\* two sensors are the source's placeholders.
Next ==
    \/ Lifecycle(MaxTasks)
    \/ \E kind \in ShutdownCallbackKinds :
          RegisterShutdownCallback(kind, MaxCallbacks)
    \/ ManualTrigger(MANUAL_OVERRIDE)
    \/ \E t \in Tasks : Loop(t, MaxTicks, {0, 60}, {0}, {0})
    \/ \E t \in Threads : Trigger(t)

Init ==
    Construct({DefaultThermal, [DefaultThermal EXCEPT !.emergency_threshold = 70]},
              PowerConfigs, NeuralConfigs)

Spec == Init /\ [][Next]_vars

\* A step of monitoring thread t under free interleaving. The interpreter
\* schedules every runnable thread again and again, sensor reads and callbacks
\* return, and the sleeps end: a monitoring thread that can take a step
\* eventually takes one.
TaskStep(t) == Loop(t, MaxTicks, {0, 60}, {0}, {0}) \/ Trigger(t)

FairSpec == Spec /\ \A t \in Tasks : WF_vars(TaskStep(t))

\* A thread takes a step only while every other thread is between operations
\* (the caller context between calls or waiting in join, a monitoring thread
\* at the head of its loop): the operations are serialized.
Alone(t) ==
    \A u \in Threads \ {t} : pc[u] \in {"idle", "join", "unborn", "head", "done"}

\* The monitor with its operations serialized and callbacks of every kind:
\* the caller context registers shutdown and alert callbacks and calls the
\* trigger with either reason, before, between and after the ticks.
SerialNext ==
    \/ Alone(Main) /\ Lifecycle(SerialTasks)
    \/ \E kind \in ShutdownCallbackKinds :
          Alone(Main) /\ RegisterShutdownCallback(kind, SerialCallbacks)
    \/ \E kind \in AlertCallbackKinds :
          Alone(Main) /\ RegisterAlertCallback(kind, SerialCallbacks)
    \/ \E reason \in CallerReasons : Alone(Main) /\ ManualTrigger(reason)
    \/ \E t \in Tasks : Alone(t) /\ Loop(t, SerialTicks, {0, 60}, {0}, {0})
    \/ \E t \in Threads : Alone(t) /\ Trigger(t)

SerialSpec == Init /\ [][SerialNext]_vars

\* The monitor with its operations serialized and sensors that return a value
\* of every tier, under every threshold table; one shutdown and one alert
\* callback may be registered, and the caller context may call the trigger
\* between the ticks.
TierNext ==
    \/ Alone(Main) /\ Lifecycle(TierTasks)
    \/ Alone(Main) /\ RegisterShutdownCallback("ok", TierCallbacks)
    \/ Alone(Main) /\ RegisterAlertCallback("ok", TierCallbacks)
    \/ Alone(Main) /\ ManualTrigger(MANUAL_OVERRIDE)
    \/ \E t \in Tasks :
          Alone(t) /\ Loop(t, TierTicks, TempValues, CurrentValues, NeuralValues)
    \/ \E t \in Threads : Alone(t) /\ Trigger(t)

TierInit == Construct(ThermalConfigs, PowerConfigs, NeuralConfigs)

TierSpec == TierInit /\ [][TierNext]_vars

\* Names asked about while the monitor runs: one the default list blocks with
\* EMERGENCY risk, one it allows with safeguards but requires authorization
\* for, and one that only added restrictions match.
MonitoredNames == {cpu_burn, fahclient, bash}

\* The caller context that asks while the monitor runs.
Asker == CHOOSE c \in Callers : \A d \in Callers : c <= d

\* The whole monitor: the lifecycle, the ticks and the trigger serialized as
\* in SerialSpec (stop() and start() again included), while a caller context
\* calls the authorization check and restrictions are added at any moment,
\* also in the middle of a tick or of a shutdown.
WholeNext ==
    \/ Alone(Main) /\ Lifecycle(MaxTasks)
    \/ Alone(Main) /\ RegisterShutdownCallback("ok", MaxCallbacks)
    \/ Alone(Main) /\ RegisterAlertCallback("ok", MaxCallbacks)
    \/ Alone(Main) /\ ManualTrigger(MANUAL_OVERRIDE)
    \/ \E t \in Tasks : Alone(t) /\ Loop(t, SerialTicks, {0, 60}, {0}, {0})
    \/ \E t \in Threads : Alone(t) /\ Trigger(t)
    \/ \E name \in MonitoredNames : CheckCall(Asker, name, MaxChecks)
    \/ Check(Asker)
    \/ \E restriction \in AddedRestrictions :
          AddRestrictedProcess(restriction, WholeAdded)

WholeSpec == GateInit /\ [][WholeNext]_vars

\* Consecutive ticks of the serialized monitor with sensors that return a
\* value of every tier, under every threshold table; the caller context may
\* call the trigger between the ticks.
LevelNext ==
    \/ Alone(Main) /\ Lifecycle(TierTasks)
    \/ Alone(Main) /\ ManualTrigger(MANUAL_OVERRIDE)
    \/ \E t \in Tasks :
          Alone(t) /\ Loop(t, LevelTicks, TempValues, CurrentValues, NeuralValues)
    \/ \E t \in Threads : Alone(t) /\ Trigger(t)

LevelSpec == TierInit /\ [][LevelNext]_vars

\* The monitor with its threads interleaving freely and one callback of each
\* list: a tick of the monitoring thread with a safe or a red-line
\* temperature, and the caller context calling the trigger at any moment.
RaceNext ==
    \/ Lifecycle(SerialTasks)
    \/ RegisterShutdownCallback("ok", MaxCallbacks)
    \/ RegisterAlertCallback("ok", MaxCallbacks)
    \/ ManualTrigger(MANUAL_OVERRIDE)
    \/ \E t \in Tasks : Loop(t, SerialTicks, {0, 60}, {0}, {0})
    \/ \E t \in Threads : Trigger(t)

RaceSpec == GateInit /\ [][RaceNext]_vars

\* The monitor with callbacks of both lists: the operations serialized, up to
\* two shutdown and two alert callbacks that return or raise, registered
\* before, between and after the ticks, and sensors that return values of the
\* alerting tiers.
DispatchNext ==
    \/ Alone(Main) /\ Lifecycle(SerialTasks)
    \/ \E kind \in {"ok", "raises"} :
          Alone(Main) /\ RegisterShutdownCallback(kind, SerialCallbacks)
    \/ \E kind \in AlertCallbackKinds :
          Alone(Main) /\ RegisterAlertCallback(kind, SerialCallbacks)
    \/ Alone(Main) /\ ManualTrigger(MANUAL_OVERRIDE)
    \/ \E t \in Tasks :
          Alone(t) /\ Loop(t, SerialTicks, {0, 57, 60}, {0, 1200}, {0, 600})
    \/ \E t \in Threads : Alone(t) /\ Trigger(t)

DispatchSpec == GateInit /\ [][DispatchNext]_vars

\* The monitor after n ticks of a started monitoring thread whose sensors
\* returned safe values (the k-th tick read k % 45 degrees, (k % 5) * 100 mA
\* and (k % 4) * 100 uV): the thread is at the head of its loop, the state
\* holds the last readings and each history holds the n readings.
AfterSafeTicks(n) ==
    /\ thermal = DefaultThermal
    /\ power = DefaultPower
    /\ neural = DefaultNeural
    /\ state = [InitialSafetyState EXCEPT
                   !.is_active = TRUE,
                   !.current_temperature = n % 45,
                   !.current_current_ma = (n % 5) * 100,
                   !.neural_activity_uv = (n % 4) * 100]
    /\ is_initialized = TRUE
    /\ is_running = TRUE
    /\ stop_event = FALSE
    /\ monitoring_thread = 1
    /\ shutdown_callbacks = <<>>
    /\ alert_callbacks = <<>>
    /\ temperature_readings = [k \in 1..n |-> k % 45]
    /\ current_readings = [k \in 1..n |-> (k % 5) * 100]
    /\ neural_readings = [k \in 1..n |-> (k % 4) * 100]
    /\ pc = [t \in Threads |->
                IF t = Main THEN "idle" ELSE IF t = 1 THEN "head" ELSE "unborn"]
    /\ frame = [t \in Threads |-> EmptyFrame]
    /\ shutdown_log = <<>>
    /\ alert_log = <<>>
    /\ clock = 1
    /\ ticks = n
    /\ spawned = 1
    /\ raised = "none"
    /\ restricted_processes = DEFAULT_RESTRICTED_PROCESSES
    /\ process_violations = <<>>
    /\ gate = [c \in Callers |-> IdleCall]
    /\ returned_state = NoObject
    /\ returned_log = [ref |-> NoObject, items |-> <<>>]
    /\ engine = NoObject

\* A long-running monitor: its histories are full or nearly so.
HistoryInit == \E n \in (HistoryCap - HistoryShort)..HistoryCap : AfterSafeTicks(n)

\* The long-running monitor goes on: further ticks with a safe or a red-line
\* temperature or a sensor fault, a shutdown callback registered, stop().
HistoryNext ==
    \/ Alone(Main) /\ Lifecycle(SerialTasks)
    \/ Alone(Main) /\ RegisterShutdownCallback("ok", MaxCallbacks)
    \/ \E t \in Tasks :
          Alone(t) /\ Loop(t, HistoryCap + HistoryTicks, {0, 60}, {0}, {0})
    \/ \E t \in Tasks : Alone(t) /\ Trigger(t)

HistorySpec == HistoryInit /\ [][HistoryNext]_vars

\* The monitor and a caller that reads it: the lifecycle, one tick and the
\* trigger serialized, authorization checks of a blocked name, and a caller
\* context that takes
\* the state and the violation log and writes to what it was handed.
ReaderNext ==
    \/ Alone(Main) /\ Lifecycle(SerialTasks)
    \/ Alone(Main) /\ ManualTrigger(MANUAL_OVERRIDE)
    \/ \E t \in Tasks : Alone(t) /\ Loop(t, SerialTicks, {0, 60}, {0}, {0})
    \/ \E t \in Threads : Alone(t) /\ Trigger(t)
    \/ CheckCall(Asker, cpu_burn, MaxChecks)
    \/ Check(Asker)
    \/ GetState
    \/ \E w \in StateWrites : WriteReturnedState(w, ReaderShutdowns)
    \/ GetViolationLog
    \/ \E edit \in ListEdits : EditReturnedLog(edit, MaxChecks)

ReaderSpec == GateInit /\ [][ReaderNext]_vars

\* An engine as constructed, with the monitor enabled (the default) or not:
\* the monitor it will build has the thresholds of EngineConfig, which are
\* the defaults.
EngineInit ==
    /\ SafetyMonitorInit({DefaultThermal}, {DefaultPower}, {DefaultNeural})
    /\ engine \in {ExcellenceEngine(enabled) : enabled \in BOOLEAN}

\* The engine's caller initializes, starts and stops it and asks for
\* decisions, in any order, while the monitor's thread, once spawned, ticks.
\* The steps of the loop are those of Loop but for LoopExit, and there is no
\* Join: stop() never gets as far as the monitor's stop() (see C33), so the
\* stop event is never set and no join is begun.
EngineNext ==
    \/ EngineInitialize
    \/ EngineStart(SerialTasks)
    \/ EngineStop
    \/ ProcessDecision(MaxDecisions)
    \/ \E t \in Tasks :
          \/ TickBegin(t, SerialTicks)
          \/ \E temp \in {0, 60} : CheckThermal(t, temp)
          \/ CheckPower(t, 0)
          \/ CheckNeural(t, 0)
          \/ SensorFault(t)
          \/ UpdateCheck(t)
          \/ UpdateWrite(t)
          \/ TickEnd(t)
    \/ \E t \in Threads : Trigger(t)

EngineSpec == EngineInit /\ [][EngineNext]_vars

\* The monitor stopped and started again, its threads interleaving freely:
\* the join of stop() returns when the thread has ended or, the thread being
\* blocked in a sensor read or in a shutdown callback, when its two seconds
\* have passed.
RestartNext ==
    \/ Lifecycle(MaxTasks)
    \/ JoinTimeout
    \/ RegisterShutdownCallback("ok", MaxCallbacks)
    \/ \E t \in Tasks : Loop(t, MaxTicks, {0, 60}, {0}, {0})
    \/ \E t \in Threads : Trigger(t)

RestartSpec == GateInit /\ [][RestartNext]_vars

\* ------------------------------------------------------------------ claims
\* C1: emergency is sticky. No step of any thread (a tick with any readings,
\* a sensor fault, a further trigger call, a registration, stop() or start())
\* takes is_emergency from true back to false.
C1_EmergencySticky == [][state.is_emergency => state'.is_emergency]_vars

\* A second monitoring thread, started after stop(), has sampled a safe
\* temperature and ended its tick while the monitor is in emergency.
C1_Witness ==
    /\ state.is_emergency
    /\ spawned = 2
    /\ pc[2] = "sleep"
    /\ state.current_temperature = 0
    /\ "neural" \in frame[2].sampled

\* The invocations of shutdown callback i the log holds, by the threads of
\* the given set and with a reason of the given set.
Invocations(i, threads, reasons) ==
    {k \in DOMAIN shutdown_log :
        /\ shutdown_log[k].cb = i
        /\ shutdown_log[k].by \in threads
        /\ shutdown_log[k].reason \in reasons}

\* The EMERGENCY alerts thread t has sent about the given reason.
EmergencyAlerts(t, reason) ==
    {k \in DOMAIN alert_log :
        /\ alert_log[k].level = EMERGENCY
        /\ alert_log[k].by = t
        /\ alert_log[k].about = reason}

\* Thread t is inside the trigger, past its is_emergency check.
InTrigger(t) == pc[t] \in {"t_flag", "t_load", "t_store", "t_cb"}

\* C2: called one after the other, only the first trigger call acts. A call
\* that finds is_emergency set returns at once: the state (shutdown_count,
\* last_shutdown), the callback log and the alert log stay as they are.
\* Hence shutdown_count is 1 once the first call is past its count, every
\* callback has been invoked at most once, every invocation and the one
\* EMERGENCY alert bear the first call's reason, and the first call invokes
\* each registered callback once, in order.
C2_SecondCallReturns ==
    \A t \in Threads :
        (pc[t] = "t_check" /\ state.is_emergency /\ pc'[t] # pc[t])
        => /\ state' = state
           /\ shutdown_log' = shutdown_log
           /\ alert_log' = alert_log
           /\ pc'[t] = frame[t].ret

C2_FirstCallOnly ==
    /\ state.shutdown_count <= 1
    /\ (state.is_emergency /\ \A t \in Threads : ~InTrigger(t))
          => /\ state.shutdown_count = 1
             /\ state.last_shutdown # NoShutdown
             /\ Cardinality({k \in DOMAIN alert_log :
                                alert_log[k].level = EMERGENCY}) = 1
    /\ \A k \in DOMAIN shutdown_log :
          /\ shutdown_log[k].cb = k
          /\ shutdown_log[k].reason = shutdown_log[1].reason
          /\ shutdown_log[k].by = shutdown_log[1].by
    /\ \A k \in DOMAIN alert_log :
          (alert_log[k].level = EMERGENCY /\ shutdown_log # <<>>)
             => alert_log[k].about = shutdown_log[1].reason
    /\ \A t \in Threads :
          pc[t] = "t_cb" => Len(shutdown_log) = frame[t].i - 1

\* C2: the trigger is idempotent when called sequentially: in every state the
\* first call's effects stand alone (C2_FirstCallOnly), and every call that
\* finds is_emergency set returns without effect (C2_SecondCallReturns).
C2_Idempotent == []C2_FirstCallOnly /\ [][C2_SecondCallReturns]_vars

\* The caller's second call, with SYSTEM_FAILURE, is at its check after a
\* first call with MANUAL_OVERRIDE invoked both callbacks.
C2_Witness ==
    /\ pc[Main] = "t_check"
    /\ frame[Main].reason = SYSTEM_FAILURE
    /\ state.is_emergency
    /\ state.shutdown_count = 1
    /\ Len(shutdown_log) = 2
    /\ shutdown_log[2].reason = MANUAL_OVERRIDE
    /\ EmergencyAlerts(Main, MANUAL_OVERRIDE) # {}

\* C3: a tick that sampled a temperature at or above the emergency threshold
\* ends with is_emergency set and the level EMERGENCY; when its trigger call
\* found the monitor not yet in emergency, the monitoring thread has invoked
\* every shutdown callback registered at that moment exactly once with
\* THERMAL_RUNAWAY; and over all ticks the monitoring threads invoke no
\* shutdown callback a second time.
C3_ThermalRunaway ==
    /\ \A t \in Tasks :
          ( /\ pc[t] = "sleep"
            /\ ~frame[t].fault
            /\ state.current_temperature >= thermal.emergency_threshold )
          => /\ state.is_emergency
             /\ state.safety_level = EMERGENCY
             /\ frame[t].fired = THERMAL_RUNAWAY =>
                   \A i \in 1..frame[t].n0 :
                      Cardinality(Invocations(i, {t}, {THERMAL_RUNAWAY})) = 1
    /\ \A i \in 1..Len(shutdown_callbacks) :
          Cardinality(Invocations(i, Tasks, ShutdownReason)) <= 1

\* The second tick has sampled a red-line temperature like the first, whose
\* trigger call had invoked the registered callback.
C3_Witness ==
    \E t \in Tasks :
        /\ pc[t] = "sleep"
        /\ ticks = 2
        /\ frame[t].pre
        /\ state.current_temperature >= thermal.emergency_threshold
        /\ Cardinality(Invocations(1, Tasks, {THERMAL_RUNAWAY})) = 1

\* C4: shutdown_count never exceeds 1 and no shutdown callback is invoked
\* twice, whatever the interleaving of the loop's trigger call with a
\* caller's.
C4_ShutdownOnce ==
    /\ state.shutdown_count <= 1
    /\ \A i \in 1..Len(shutdown_callbacks) :
          Cardinality(Invocations(i, Threads, ShutdownReason)) <= 1

\* C5: once a trigger call of the caller context has run to its end (it has
\* sent its EMERGENCY alert), safety_level is EMERGENCY.
C5_LevelPinned ==
    EmergencyAlerts(Main, MANUAL_OVERRIDE) # {}
        => state.safety_level = EMERGENCY

\* C6: whenever a thread is about to invoke a shutdown callback, is_emergency
\* is set, the level is EMERGENCY, last_shutdown is set and shutdown_count is
\* at least 1.
C6_StateBeforeCallbacks ==
    \A t \in Threads :
        (pc[t] = "t_cb" /\ frame[t].i <= Len(shutdown_callbacks))
        => /\ state.is_emergency
           /\ state.safety_level = EMERGENCY
           /\ state.last_shutdown # NoShutdown
           /\ state.shutdown_count >= 1

\* C7: whatever the callbacks registered before it do when invoked, raise
\* included, a trigger call that passed its check has set is_emergency and
\* invoked every callback before the one it is at; a tick whose trigger call
\* fired ends with every callback registered at that moment invoked once and
\* the EMERGENCY alert sent by the monitoring thread; and whenever the
\* monitor is in emergency and no trigger call is under way, an EMERGENCY
\* alert has been sent.
C7_FaultIsolation ==
    /\ \A t \in Threads :
          pc[t] = "t_cb"
          => /\ state.is_emergency
             /\ \A k \in 1..(frame[t].i - 1) :
                   Cardinality(Invocations(k, {t}, {frame[t].reason})) = 1
    /\ \A t \in Tasks :
          (pc[t] = "sleep" /\ frame[t].fired # "")
          => /\ state.is_emergency
             /\ EmergencyAlerts(t, frame[t].fired) # {}
             /\ \A k \in 1..frame[t].n0 :
                   Cardinality(Invocations(k, {t}, {frame[t].fired})) = 1
    /\ (state.is_emergency /\ \A t \in Threads : ~InTrigger(t))
          => \E k \in DOMAIN alert_log : alert_log[k].level = EMERGENCY

\* The caller's trigger call has returned after a raising callback and the
\* callback registered after it were both invoked.
C7_Witness ==
    /\ pc[Main] = "idle"
    /\ shutdown_callbacks = <<"raises", "ok">>
    /\ state.is_emergency
    /\ Len(shutdown_log) = 2
    /\ shutdown_log[1].kind = "raises"
    /\ shutdown_log[2].kind = "ok"
    /\ EmergencyAlerts(Main, shutdown_log[2].reason) # {}

\* C8: a tick in which a sensor read raised ends in the loop's sleep with the
\* monitor in emergency, the callbacks having received SYSTEM_FAILURE when the
\* handler's trigger call found the monitor not yet in emergency; and a
\* monitoring thread ends only at the head of its loop with the stop event
\* set (never because of the fault).
C8_FaultTick ==
    \A t \in Tasks :
        (pc[t] = "sleep" /\ frame[t].fault)
        => /\ state.is_emergency
           /\ frame[t].fired = SYSTEM_FAILURE =>
                 /\ EmergencyAlerts(t, SYSTEM_FAILURE) # {}
                 /\ \A i \in 1..frame[t].n0 :
                       Cardinality(Invocations(i, {t}, {SYSTEM_FAILURE})) = 1

C8_EndsOnlyOnStop ==
    \A t \in Tasks :
        (pc[t] # "done" /\ pc'[t] = "done") => (pc[t] = "head" /\ stop_event)

\* C8: the loop survives sensor faults: every faulted tick ends in the sleep
\* with the SYSTEM_FAILURE shutdown done (C8_FaultTick), and the thread ends
\* only when stop() has signalled it (C8_EndsOnlyOnStop).
C8_LoopSurvivesFaults == []C8_FaultTick /\ [][C8_EndsOnlyOnStop]_vars

\* A second tick is running after a tick whose sensor fault was turned into
\* a SYSTEM_FAILURE shutdown.
C8_Witness ==
    \E t \in Tasks :
        /\ pc[t] = "power"
        /\ ticks = 2
        /\ EmergencyAlerts(t, SYSTEM_FAILURE) # {}
        /\ Cardinality(Invocations(1, {t}, {SYSTEM_FAILURE})) = 1

\* C9: under every threshold table initialize() accepted, a tick without
\* sensor fault that sampled a temperature in [warning_threshold,
\* throttling_threshold), a current below max_current_ma and a neural
\* activity below critical_threshold_uv has not fired the trigger, has left
\* is_emergency as the tick found it and has invoked no shutdown callback.
C9_WarningBandNoShutdown ==
    \A t \in Tasks :
        ( /\ pc[t] = "sleep"
          /\ ~frame[t].fault
          /\ state.current_temperature >= thermal.warning_threshold
          /\ state.current_temperature < thermal.throttling_threshold
          /\ state.current_current_ma < power.max_current_ma
          /\ state.neural_activity_uv < neural.critical_threshold_uv )
        => /\ frame[t].fired = ""
           /\ state.is_emergency = frame[t].pre
           /\ Invocations(1, {t}, ShutdownReason) = {}

\* C10: a tick that began with the monitor not in emergency and sampled a
\* temperature below the emergency threshold and a current at or above
\* max_current_ma ends with the monitor in emergency, its trigger call having
\* fired with POWER_SURGE and every callback registered at that moment
\* invoked once, with POWER_SURGE.
C10_PowerSurge ==
    \A t \in Tasks :
        ( /\ pc[t] = "sleep"
          /\ ~frame[t].pre
          /\ "power" \in frame[t].sampled
          /\ state.current_temperature < thermal.emergency_threshold
          /\ state.current_current_ma >= power.max_current_ma )
        => /\ state.is_emergency
           /\ state.safety_level = EMERGENCY
           /\ frame[t].fired = POWER_SURGE
           /\ \A k \in 1..frame[t].n0 :
                 Cardinality(Invocations(k, {t}, {POWER_SURGE})) = 1
           /\ Invocations(1, {t}, ShutdownReason \ {POWER_SURGE}) = {}

\* A tick that sampled 2000 mA at 0 degrees has ended; the registered
\* callback received POWER_SURGE.
C10_Witness ==
    \E t \in Tasks :
        /\ pc[t] = "sleep"
        /\ ~frame[t].pre
        /\ state.current_current_ma = power.max_current_ma
        /\ state.current_temperature < thermal.emergency_threshold
        /\ Len(shutdown_log) = 1
        /\ shutdown_log[1].reason = POWER_SURGE

\* C11: a tick that began with the monitor not in emergency and sampled a
\* temperature below the emergency threshold, a current below max_current_ma
\* and a neural activity at or above critical_threshold_uv ends with the
\* monitor in emergency, its trigger call having fired with NEURAL_ANOMALY
\* and every callback registered at that moment invoked once with that
\* reason; with a neural activity in [seizure_threshold_uv,
\* critical_threshold_uv) instead, the tick ends with is_emergency false and
\* no trigger call fired.
C11_NeuralAnomaly ==
    \A t \in Tasks :
        ( /\ pc[t] = "sleep"
          /\ ~frame[t].pre
          /\ "neural" \in frame[t].sampled
          /\ state.current_temperature < thermal.emergency_threshold
          /\ state.current_current_ma < power.max_current_ma )
        => /\ state.neural_activity_uv >= neural.critical_threshold_uv
              => /\ state.is_emergency
                 /\ state.safety_level = EMERGENCY
                 /\ frame[t].fired = NEURAL_ANOMALY
                 /\ \A k \in 1..frame[t].n0 :
                       Cardinality(Invocations(k, {t}, {NEURAL_ANOMALY})) = 1
                 /\ Invocations(1, {t}, ShutdownReason \ {NEURAL_ANOMALY}) = {}
           /\ ( /\ state.neural_activity_uv >= neural.seizure_threshold_uv
                /\ state.neural_activity_uv < neural.critical_threshold_uv )
              => /\ ~state.is_emergency
                 /\ frame[t].fired = ""
                 /\ Invocations(1, {t}, ShutdownReason) = {}

\* A tick that sampled a neural activity of exactly critical_threshold_uv,
\* with the other channels at 0, has ended; the registered callback received
\* NEURAL_ANOMALY.
C11_Witness ==
    \E t \in Tasks :
        /\ pc[t] = "sleep"
        /\ ~frame[t].pre
        /\ state.neural_activity_uv = neural.critical_threshold_uv
        /\ state.current_current_ma = 0
        /\ Len(shutdown_log) = 1
        /\ shutdown_log[1].reason = NEURAL_ANOMALY

\* C12: no ThermalThresholds object with emergency_threshold above
\* max_allowed exists: the table a monitor was constructed with has
\* emergency_threshold <= max_allowed.
C12_NoInvalidThermalTable == thermal.emergency_threshold <= thermal.max_allowed

\* What initialize() and start() leave alone in any case.
C13_Untouched ==
    UNCHANGED <<engine, handed, authorization, config,
                state, is_running, stop_event, monitoring_thread,
                registry, histories, pc, frame, logs, clock, budget>>

C13_InitializeStep ==
    Initialize
    => /\ C13_Untouched
       /\ IF \/ thermal.emergency_threshold > thermal.max_allowed
             \/ power.current_limit_ma > power.max_current_ma
          THEN raised' = "ValueError" /\ is_initialized' = is_initialized
          ELSE raised' = "none" /\ is_initialized'

C13_StaysUninitialized ==
    ( \/ thermal.emergency_threshold > thermal.max_allowed
      \/ power.current_limit_ma > power.max_current_ma )
    => /\ ~is_initialized
       /\ ~is_running
       /\ spawned = 0
       /\ raised \in {"none", "ValueError", "RuntimeError"}

C14_NotStarted ==
    ~is_initialized
    => /\ ~is_running
       /\ ~state.is_active
       /\ monitoring_thread = 0
       /\ spawned = 0
       /\ ticks = 0
       /\ \A t \in Tasks : pc[t] = "unborn"

C14_StartStep ==
    (Start(MostTasks) /\ ~is_initialized)
    => /\ raised' = "RuntimeError"
       /\ UNCHANGED <<engine, handed, authorization, config,
                      state, lifecycle, registry, histories, pc,
                      frame, logs, clock, budget>>

\* C14: start() on a monitor that is not initialized raises and changes
\* nothing; while the monitor is not initialized no thread exists, is_running
\* and state.is_active are false and no tick has run.
C14_StartRequiresInitialize == []C14_NotStarted /\ [][C14_StartStep]_vars

\* start() has raised on a monitor whose tables initialize() would accept.
C14_Witness ==
    /\ raised = "RuntimeError"
    /\ ~is_initialized
    /\ thermal.emergency_threshold <= thermal.max_allowed
    /\ power.current_limit_ma <= power.max_current_ma

\* C15: start() on a running monitor returns without raising and changes
\* nothing: no thread is spawned, the stop event, the flags, the state and the
\* threads are as before.
C15_StartWhileRunning ==
    [][(Start(MostTasks) /\ is_initialized /\ is_running)
       => /\ raised' = "warned"
          /\ UNCHANGED <<engine, handed, authorization, config,
                         state, lifecycle, registry, histories, pc,
                         frame, logs, clock, budget>>]_vars

\* start() has returned with its warning while the one monitoring thread is
\* inside a tick.
C15_Witness ==
    /\ raised = "warned"
    /\ is_running
    /\ spawned = 1
    /\ pc[1] = "power"
    /\ ~stop_event

\* stop() has signalled and waits in the join: the flags are down and the
\* event is set. A tick that reached its sleep without a sensor fault has run
\* the three channel checks (and, behind them, the level update).
C16_Stopping ==
    /\ pc[Main] = "join" => (~is_running /\ ~state.is_active /\ stop_event)
    /\ \A t \in Tasks :
          (pc[t] = "sleep" /\ ~frame[t].fault)
          => frame[t].sampled = {"thermal", "power", "neural"}

\* The thread ends only from the head of the loop with the event set, leaves
\* a tick only through its sleep, begins a tick only with the event clear and
\* never runs again once it has ended.
C16_TickBoundary ==
    \A t \in Tasks :
        /\ (pc[t] # "done" /\ pc'[t] = "done") => (pc[t] = "head" /\ stop_event)
        /\ (pc[t] # "head" /\ pc'[t] = "head") => pc[t] \in {"unborn", "sleep"}
        /\ (pc[t] = "head" /\ pc'[t] \notin {"head", "done"})
              => (~stop_event /\ pc'[t] = "thermal")
        /\ pc[t] = "done" => pc'[t] = "done"

Matching(list, name) ==
    {k \in DOMAIN list : re_match(list[k].pattern, name)}

\* Caller context c has a finished call to show.
Answered(c) == gate[c].at = "idle" /\ gate[c].result # "none"

\* C17: under the default restriction list, a finished authorization call
\* has returned False for a name matched by a default restriction that is not
\* allowed with safeguards -- among them cpu-burn, cpu-burn-fast, cpu_burn,
\* stress-ng, stress and prime95 -- and True, with no violation logged for
\* the name, for a name no default restriction matches -- among them bash,
\* python and vim.
C17_DefaultList ==
    \A c \in Callers :
        (Answered(c) /\ restricted_processes = DEFAULT_RESTRICTED_PROCESSES)
        => LET name == gate[c].name
               hits == Matching(DEFAULT_RESTRICTED_PROCESSES, name)
           IN  /\ (\E k \in hits :
                      ~DEFAULT_RESTRICTED_PROCESSES[k].allowed_with_safeguards)
                     => gate[c].result = "denied"
               /\ hits = {}
                     => /\ gate[c].result = "authorized"
                        /\ \A k \in DOMAIN process_violations :
                              process_violations[k].process # name
               /\ name \in {cpu_burn, cpu_burn_fast, cpu_underscore_burn,
                            stress_ng, stress, prime95}
                     => gate[c].result = "denied"
               /\ name \in {bash, python, vim}
                     => /\ gate[c].result = "authorized"
                        /\ gate[c].logged = 0

\* Under the default list one caller context was denied "stress" and the
\* other was authorized "vim"; the one violation is logged.
C17_Witness ==
    /\ restricted_processes = DEFAULT_RESTRICTED_PROCESSES
    /\ \E c, d \in Callers :
          /\ Answered(c) /\ gate[c].name = stress /\ gate[c].result = "denied"
          /\ Answered(d) /\ gate[d].name = vim /\ gate[d].result = "authorized"
    /\ Len(process_violations) = 1
    /\ process_violations[1].restriction = "stress-ng"

\* C18: under the default restriction list, a finished authorization call
\* for cpu-burn, stress-ng, prime95 or folding@home has returned False.
C18_DangerousDenied ==
    \A c \in Callers :
        ( /\ Answered(c)
          /\ restricted_processes = DEFAULT_RESTRICTED_PROCESSES
          /\ gate[c].name \in {cpu_burn, stress_ng, prime95, folding_at_home} )
        => gate[c].result = "denied"

\* What the first matching restriction of a list decides for a name.
FirstMatchDecides(list, name) ==
    LET hits == Matching(list, name) IN
    IF hits = {} THEN "authorized"
    ELSE LET first == CHOOSE k \in hits : \A h \in hits : k <= h IN
         IF \/ ~list[first].allowed_with_safeguards
            \/ list[first].requires_authorization
         THEN "denied" ELSE "authorized"

\* C19: first match governs. When an authorization call returns, its result
\* is what the first restriction of the list that matches the name decides,
\* and the call has logged one violation if a restriction matches and none
\* otherwise.
C19_FirstMatchGoverns ==
    [][\A c \in Callers :
          (gate[c].at # "idle" /\ gate'[c].at = "idle")
          => /\ gate'[c].result =
                   FirstMatchDecides(restricted_processes', gate[c].name)
             /\ gate'[c].logged =
                   IF Matching(restricted_processes', gate[c].name) = {}
                   THEN 0 ELSE 1]_vars

\* C20: whenever no authorization call is under way, total_violations equals
\* the length of the violation log.
C20_CountMatchesLog ==
    (\A c \in Callers : gate[c].at = "idle")
    => state.total_violations = Len(process_violations)

\* A restriction whose match makes the check return False.
Denying(r) == ~r.allowed_with_safeguards \/ r.requires_authorization

\* The violation log shows that a check of the name was denied.
DeniedBefore(name) ==
    \E k \in DOMAIN process_violations :
        /\ process_violations[k].process = name
        /\ \E j \in DOMAIN restricted_processes :
              /\ restricted_processes[j].name = process_violations[k].restriction
              /\ Denying(restricted_processes[j])

\* A match of a restriction that requires authorization ends the call with
\* False and one violation logged, whether or not it is allowed with
\* safeguards.
C21_RequiresDenies ==
    \A c \in Callers :
        ( /\ gate[c].at = "append"
          /\ gate'[c] # gate[c]
          /\ restricted_processes[gate[c].i].requires_authorization )
        => /\ gate'[c].at = "idle"
           /\ gate'[c].result = "denied"
           /\ Len(process_violations') = Len(process_violations) + 1

\* A call that returns when a check of its name was denied before returns
\* False.
C21_StaysDenied ==
    \A c \in Callers :
        ( /\ gate[c].at # "idle"
          /\ gate'[c].at = "idle"
          /\ DeniedBefore(gate[c].name) )
        => gate'[c].result = "denied"

\* The restriction list only grows at its end.
C21_AppendOnly ==
    /\ Len(restricted_processes') >= Len(restricted_processes)
    /\ SubSeq(restricted_processes', 1, Len(restricted_processes))
          = restricted_processes

\* C21: a match that requires authorization denies like a hard block, and
\* there is no approval path: the restriction list only grows, and once a
\* check of a name has returned False every later check of that name returns
\* False, whatever restrictions were added and whatever ticks, shutdowns and
\* stop()/start() cycles happened in between.
C21_NoApprovalPath ==
    /\ [][C21_RequiresDenies]_vars
    /\ [][C21_StaysDenied]_vars
    /\ [][C21_AppendOnly]_vars

\* "fahclient" was denied twice by the restriction that requires
\* authorization; a restriction has been added, a shutdown has happened and
\* the monitor was stopped and started again.
C21_Witness ==
    /\ Answered(Asker)
    /\ gate[Asker].name = fahclient
    /\ gate[Asker].result = "denied"
    /\ Len(process_violations) = 2
    /\ \A k \in DOMAIN process_violations :
          /\ process_violations[k].process = fahclient
          /\ process_violations[k].restriction = "folding@home"
    /\ Len(restricted_processes) > Len(DEFAULT_RESTRICTED_PROCESSES)
    /\ state.is_emergency
    /\ spawned = 2

\* The caller writes to the state object it was handed.
CallerWritesState == \E w \in StateWrites : WriteReturnedState(w, ReaderShutdowns)

\* C22: the state get_state() returned is a copy. A write of the caller to
\* the returned object changes no field of the monitor's state, and no step
\* of the loop, of the trigger or of an authorization check changes what the
\* returned object holds.
C22_SnapshotIsCopy ==
    [][/\ CallerWritesState => state' = state
       /\ (returned_state # NoObject /\ ~CallerWritesState)
             => StateAt(returned_state)' = StateAt(returned_state)]_vars

\* The caller edits the list it was handed.
CallerEditsLog == \E edit \in ListEdits : EditReturnedLog(edit, MaxChecks)

\* C23: the list get_violation_log() returned is a copy. An append to, a pop
\* from or a clear of the returned list leaves the monitor's violation log
\* and total_violations as they are, and no other step (a later violation
\* among them) changes the entries of a list already returned.
C23_LogIsCopy ==
    [][/\ CallerEditsLog
             => /\ process_violations' = process_violations
                /\ state'.total_violations = state.total_violations
       /\ (returned_log.ref # NoObject /\ ~CallerEditsLog /\ ~GetViolationLog)
             => ItemsOf(returned_log)' = ItemsOf(returned_log)]_vars

\* The caller took the log when it held one violation and appended an entry
\* of its own to the list; a second violation has been logged since. The
\* list holds the first violation and the caller's entry, the log the two
\* violations.
C23_Witness ==
    /\ returned_log.ref # NoObject
    /\ Len(ItemsOf(returned_log)) = 2
    /\ ItemsOf(returned_log)[1].restriction = "cpu-burn"
    /\ ItemsOf(returned_log)[2].restriction = ""
    /\ Len(process_violations) = 2
    /\ \A k \in DOMAIN process_violations :
          process_violations[k].restriction = "cpu-burn"
    /\ state.total_violations = 2

\* No history holds more than 1000 readings.
C24_AtMostCap ==
    /\ Len(temperature_readings) <= HistoryCap
    /\ Len(current_readings) <= HistoryCap
    /\ Len(neural_readings) <= HistoryCap

\* A history after the reading x was recorded: the history with x at its
\* end, or, when that makes 1001 readings, the last 500 of them in order.
Recorded(before, after, x) ==
    LET appended == Append(before, x)
    IN  IF Len(appended) > 1000
        THEN /\ Len(after) = 500
             /\ \A k \in 1..500 : after[k] = appended[Len(appended) - 500 + k]
        ELSE after = appended

\* Each channel check records its sample, and nothing else touches a history.
C24_Records ==
    /\ \A t \in Tasks :
          /\ (pc[t] = "thermal" /\ pc'[t] # "thermal" /\ ~frame'[t].fault)
                => Recorded(temperature_readings, temperature_readings',
                            state'.current_temperature)
          /\ (pc[t] = "power" /\ pc'[t] # "power" /\ ~frame'[t].fault)
                => Recorded(current_readings, current_readings',
                            state'.current_current_ma)
          /\ (pc[t] = "neural" /\ pc'[t] # "neural" /\ ~frame'[t].fault)
                => Recorded(neural_readings, neural_readings',
                            state'.neural_activity_uv)
    /\ temperature_readings' # temperature_readings
          => \E t \in Tasks : pc[t] = "thermal"
    /\ current_readings' # current_readings
          => \E t \in Tasks : pc[t] = "power"
    /\ neural_readings' # neural_readings
          => \E t \in Tasks : pc[t] = "neural"

IsPrefix(a, b) == Len(a) <= Len(b) /\ SubSeq(b, 1, Len(a)) = a

\* Every alert was delivered to the alert callbacks in the order of their
\* registration, and every logged invocation is of the callback registered
\* at that position.
C25_InOrder ==
    /\ \A k \in DOMAIN alert_log :
          IsPrefix(alert_log[k].delivered, alert_callbacks)
    /\ \A k \in DOMAIN shutdown_log :
          shutdown_log[k].kind = shutdown_callbacks[shutdown_log[k].cb]

\* A trigger call that leaves its callback loop has invoked, as its last
\* invocations, each registered shutdown callback once, in order, in its own
\* thread and with its reason. An alert is one call delivered to every
\* registered alert callback by the thread that sent it. An invocation is
\* logged by the thread at that position of its loop. Registration appends
\* to one list and leaves the other list and the logs alone.
C25_Step ==
    /\ \A t \in Threads :
          (pc[t] = "t_cb" /\ pc'[t] # "t_cb")
          => LET n == Len(shutdown_callbacks)
                 m == Len(shutdown_log)
             IN  /\ m >= n
                 /\ \A k \in 1..n :
                       shutdown_log[m - n + k]
                          = [cb |-> k, kind |-> shutdown_callbacks[k],
                             reason |-> frame[t].reason, by |-> t]
    /\ alert_log' # alert_log
          => /\ Len(alert_log') = Len(alert_log) + 1
             /\ IsPrefix(alert_log, alert_log')
             /\ alert_log'[Len(alert_log')].delivered = alert_callbacks
             /\ pc'[alert_log'[Len(alert_log')].by]
                   # pc[alert_log'[Len(alert_log')].by]
    /\ shutdown_log' # shutdown_log
          => /\ Len(shutdown_log') = Len(shutdown_log) + 1
             /\ IsPrefix(shutdown_log, shutdown_log')
             /\ LET e == shutdown_log'[Len(shutdown_log')]
                IN  /\ pc[e.by] = "t_cb"
                    /\ e.cb = frame[e.by].i
                    /\ frame'[e.by].i = e.cb + 1
                    /\ e.reason = frame[e.by].reason
    /\ IsPrefix(shutdown_callbacks, shutdown_callbacks')
    /\ IsPrefix(alert_callbacks, alert_callbacks')
    /\ shutdown_callbacks' # shutdown_callbacks
          => /\ Len(shutdown_callbacks') = Len(shutdown_callbacks) + 1
             /\ UNCHANGED <<alert_callbacks, logs>>
    /\ alert_callbacks' # alert_callbacks
          => /\ Len(alert_callbacks') = Len(alert_callbacks) + 1
             /\ UNCHANGED <<shutdown_callbacks, logs>>

\* C25: dispatch is synchronous and in registration order. Every shutdown
\* event invokes each registered shutdown callback once, in the order of
\* registration and in the triggering thread; every alert is delivered once
\* to each registered alert callback in the order of registration; the two
\* lists are independent and registration only appends.
C25_DispatchInOrder == []C25_InOrder /\ [][C25_Step]_vars

\* A raising and then a returning alert callback received a CRITICAL alert
\* of the tick in that order, and the shutdown the caller triggered invoked
\* the returning and then the raising shutdown callback.
C25_Witness ==
    /\ alert_callbacks = <<"raises", "ok">>
    /\ \E k \in DOMAIN alert_log :
          /\ alert_log[k].level = CRITICAL
          /\ alert_log[k].delivered = <<"raises", "ok">>
    /\ shutdown_callbacks = <<"ok", "raises">>
    /\ Len(shutdown_log) = 2
    /\ shutdown_log[1].kind = "ok"
    /\ shutdown_log[2].kind = "raises"
    /\ pc[Main] = "idle"
    /\ state.is_emergency

\* Thread t has sent, in the running tick, an alert of the level with the
\* text, and every registered alert callback was invoked with it.
AlertedAll(t, level, text) ==
    \E k \in DOMAIN alert_log :
        /\ alert_log[k].by = t
        /\ alert_log[k].tick = ticks
        /\ alert_log[k].level = level
        /\ alert_log[k].text = text
        /\ alert_log[k].delivered = alert_callbacks

\* The running tick of thread t has invoked the hook.
Invoked(t, hook) == \E k \in DOMAIN frame[t].hooks : frame[t].hooks[k] = hook

\* A tick without sensor fault that has reached its sleep, whatever the alert
\* callbacks did: it ran the three checks, every alert of its tiers reached
\* every alert callback and was followed by its hook, no SYSTEM_FAILURE
\* trigger call fired, and with every sample below its shutdown tier
\* is_emergency is as the tick found it.
C26_TickGoesOn ==
    \A t \in Tasks :
        (pc[t] = "sleep" /\ ~frame[t].fault)
        => /\ frame[t].sampled = {"thermal", "power", "neural"}
           /\ frame[t].fired # SYSTEM_FAILURE
           /\ ( /\ state.current_temperature >= thermal.critical_threshold
                /\ state.current_temperature < thermal.emergency_threshold )
              => /\ AlertedAll(t, CRITICAL, "Temperature critical")
                 /\ Invoked(t, "throttle")
           /\ ( /\ state.current_current_ma >= power.critical_current_ma
                /\ state.current_current_ma < power.max_current_ma )
              => /\ AlertedAll(t, CRITICAL, "Current critical")
                 /\ Invoked(t, "limit_current")
           /\ ( /\ state.neural_activity_uv >= neural.seizure_threshold_uv
                /\ state.neural_activity_uv < neural.critical_threshold_uv )
              => /\ AlertedAll(t, CRITICAL, "Neural anomaly detected")
                 /\ Invoked(t, "disconnect")
           /\ ( /\ state.current_temperature < thermal.emergency_threshold
                /\ state.current_current_ma < power.max_current_ma
                /\ state.neural_activity_uv < neural.critical_threshold_uv )
              => /\ state.is_emergency = frame[t].pre
                 /\ frame[t].fired = ""

\* A step that sends an alert below EMERGENCY leaves is_emergency and the
\* shutdown log alone and takes its thread on to the next check of the tick.
C26_AlertStep ==
    (alert_log' # alert_log /\ alert_log'[Len(alert_log')].level # EMERGENCY)
    => LET t == alert_log'[Len(alert_log')].by
       IN  /\ state'.is_emergency = state.is_emergency
           /\ shutdown_log' = shutdown_log
           /\ pc'[t] \in {"power", "neural", "update"}
           /\ frame'[t].fault = frame[t].fault
           /\ frame'[t].reason = ""

\* C26: alert callbacks are fault-isolated from the loop. When an alert
\* callback raises during a tick, the alert callbacks after it are still
\* invoked, the tick goes on with the hook and the remaining checks, and no
\* SYSTEM_FAILURE shutdown results: is_emergency is as before.
C26_AlertFaultIsolation == []C26_TickGoesOn /\ [][C26_AlertStep]_vars

\* With a raising alert callback registered before a returning one, a tick
\* sampled 57 degrees, 1200 mA and 600 uV: three alerts, three hooks, and the
\* monitor is not in emergency.
C26_Witness ==
    \E t \in Tasks :
        /\ pc[t] = "sleep"
        /\ alert_callbacks = <<"raises", "ok">>
        /\ state.current_temperature = 57
        /\ state.current_current_ma = 1200
        /\ state.neural_activity_uv = 600
        /\ Len(alert_log) = 3
        /\ \A k \in DOMAIN alert_log :
              alert_log[k].delivered = <<"raises", "ok">>
        /\ frame[t].hooks = <<"throttle", "limit_current", "disconnect">>
        /\ ~state.is_emergency

\* What a restriction list decides for a name: denied when a restriction
\* that matches the name denies.
ListDecides(list, name) ==
    IF \E k \in Matching(list, name) : Denying(list[k])
    THEN "denied" ELSE "authorized"

\* A call that returns returns what the restriction list decides for its
\* name, whatever the readings, the level, the emergency flag and the
\* lifecycle state are.
C27_ResultFromList ==
    \A c \in Callers :
        (gate[c].at # "idle" /\ gate'[c].at = "idle")
        => gate'[c].result = ListDecides(restricted_processes, gate[c].name)

\* A step of an authorization call changes, besides the call itself, only
\* total_violations and the violation log.
C27_GateFrame ==
    gate' # gate
    => /\ state' = [state EXCEPT !.total_violations = state'.total_violations]
       /\ UNCHANGED <<engine, handed, config, lifecycle, registry, histories,
                      pc, frame, logs, clock, budget, raised,
                      restricted_processes>>

\* C27: the authorization gate is independent of live sensing. The result of
\* a check depends only on the name and the restriction list, and the check
\* changes nothing but total_violations and the violation log: it never sets
\* is_emergency, never changes safety_level or shutdown_count and invokes no
\* shutdown or alert callback, also when the matched restriction has
\* EMERGENCY risk.
C27_GateIndependent == [][C27_ResultFromList]_vars /\ [][C27_GateFrame]_vars

\* "cpu-burn" was denied by the EMERGENCY-risk restriction while the started
\* monitor, with a shutdown and an alert callback registered, is in the
\* middle of a tick: no shutdown, no alert, the level NORMAL.
C27_Witness ==
    /\ Answered(Asker)
    /\ gate[Asker].name = cpu_burn
    /\ gate[Asker].result = "denied"
    /\ process_violations # <<>>
    /\ process_violations[1].risk_level = EMERGENCY
    /\ state.total_violations = 1
    /\ \E t \in Tasks : pc[t] = "power"
    /\ shutdown_callbacks # <<>>
    /\ alert_callbacks # <<>>
    /\ ~state.is_emergency
    /\ state.safety_level = NORMAL
    /\ state.shutdown_count = 0
    /\ shutdown_log = <<>>
    /\ alert_log = <<>>

\* The level the three samples call for.
LevelOfSamples ==
    IF \/ state.current_temperature >= thermal.critical_threshold
       \/ state.current_current_ma >= power.critical_current_ma
       \/ state.neural_activity_uv >= neural.seizure_threshold_uv
    THEN CRITICAL
    ELSE IF \/ state.current_temperature >= thermal.warning_threshold
            \/ state.current_current_ma >= power.warning_current_ma
    THEN WARNING
    ELSE NORMAL

\* C28: at the end of every tick in which is_emergency is false, safety_level
\* is the maximum of the levels the tick's three samples call for (CRITICAL,
\* else WARNING, else NORMAL), whatever the level was before the tick:
\* non-emergency levels are not sticky.
C28_LevelFollowsSamples ==
    \A t \in Tasks :
        (pc[t] = "sleep" /\ ~state.is_emergency)
        => /\ frame[t].sampled = {"thermal", "power", "neural"}
           /\ state.safety_level = LevelOfSamples

\* The second tick, with every sample back at 0, has ended with the level
\* NORMAL after the first tick had alerted at CRITICAL.
C28_Witness ==
    \E t \in Tasks :
        /\ pc[t] = "sleep"
        /\ ticks = 2
        /\ ~state.is_emergency
        /\ state.current_temperature = 0
        /\ state.current_current_ma = 0
        /\ state.neural_activity_uv = 0
        /\ state.safety_level = NORMAL
        /\ \E k \in DOMAIN alert_log : alert_log[k].level = CRITICAL

\* The alerts thread t has sent in the running tick with one of the texts.
AlertsOf(t, texts) ==
    {k \in DOMAIN alert_log :
        /\ alert_log[k].by = t
        /\ alert_log[k].tick = ticks
        /\ alert_log[k].text \in texts}

\* The one alert thread t has sent in the running tick with one of the texts
\* has the level and the text.
OneAlert(t, texts, level, text) ==
    /\ Cardinality(AlertsOf(t, texts)) = 1
    /\ \A k \in AlertsOf(t, texts) :
          alert_log[k].level = level /\ alert_log[k].text = text

\* How often the running tick of thread t has invoked the hook.
TimesInvoked(t, hook) ==
    Cardinality({k \in DOMAIN frame[t].hooks : frame[t].hooks[k] = hook})

ThermalTexts == {"Temperature critical", "Temperature elevated", "Temperature rising"}
PowerTexts == {"Current critical"}
NeuralTexts == {"Neural anomaly detected"}

\* What the thermal sample of a finished tick has produced: the act of the
\* highest tier it reaches, and of no other.
C29_Thermal(t) ==
    LET temp == state.current_temperature IN
    IF temp >= thermal.emergency_threshold
    THEN /\ state.is_emergency
         /\ ~frame[t].pre => frame[t].fired = THERMAL_RUNAWAY
         /\ AlertsOf(t, ThermalTexts) = {}
         /\ TimesInvoked(t, "throttle") = 0
    ELSE /\ frame[t].fired # THERMAL_RUNAWAY
         /\ IF temp >= thermal.critical_threshold
            THEN /\ OneAlert(t, ThermalTexts, CRITICAL, "Temperature critical")
                 /\ TimesInvoked(t, "throttle") = 1
            ELSE IF temp >= thermal.throttling_threshold
            THEN /\ OneAlert(t, ThermalTexts, WARNING, "Temperature elevated")
                 /\ TimesInvoked(t, "throttle") = 1
            ELSE IF temp >= thermal.warning_threshold
            THEN /\ OneAlert(t, ThermalTexts, WARNING, "Temperature rising")
                 /\ TimesInvoked(t, "throttle") = 0
            ELSE /\ AlertsOf(t, ThermalTexts) = {}
                 /\ TimesInvoked(t, "throttle") = 0

\* The hooks of a finished tick: each invoked exactly when its sample lies
\* between its tier's threshold and the shutdown threshold of its channel,
\* and then once, after the one CRITICAL alert of the channel (power, neural).
C29_Hooks(t) ==
    /\ TimesInvoked(t, "throttle") <= 1
    /\ TimesInvoked(t, "throttle") = 1
          <=> /\ thermal.throttling_threshold <= state.current_temperature
              /\ state.current_temperature < thermal.emergency_threshold
    /\ TimesInvoked(t, "limit_current") <= 1
    /\ TimesInvoked(t, "limit_current") = 1
          <=> /\ power.critical_current_ma <= state.current_current_ma
              /\ state.current_current_ma < power.max_current_ma
    /\ TimesInvoked(t, "limit_current") = Cardinality(AlertsOf(t, PowerTexts))
    /\ TimesInvoked(t, "disconnect") <= 1
    /\ TimesInvoked(t, "disconnect") = 1
          <=> /\ neural.seizure_threshold_uv <= state.neural_activity_uv
              /\ state.neural_activity_uv < neural.critical_threshold_uv
    /\ TimesInvoked(t, "disconnect") = Cardinality(AlertsOf(t, NeuralTexts))
    /\ \A k \in AlertsOf(t, PowerTexts \cup NeuralTexts) :
          alert_log[k].level = CRITICAL

EmergencyDeliveries(i) ==
    {k \in DOMAIN alert_log :
        alert_log[k].level = EMERGENCY /\ i <= Len(alert_log[k].delivered)}

\* An EMERGENCY alert is sent by a trigger call that has invoked every
\* registered shutdown callback, and is the only one of that call.
C30_AfterCallbacks ==
    (alert_log' # alert_log /\ alert_log'[Len(alert_log')].level = EMERGENCY)
    => LET t == alert_log'[Len(alert_log')].by
       IN  /\ pc[t] = "t_cb"
           /\ pc'[t] = frame[t].ret
           /\ Len(alert_log') = Len(alert_log) + 1
           /\ \A i \in 1..Len(shutdown_callbacks) :
                 Invocations(i, {t}, {frame[t].reason}) # {}

\* C30: each emergency shutdown emits exactly one EMERGENCY alert, after
\* every registered shutdown callback was invoked, and no alert callback
\* receives more than one EMERGENCY alert over the lifetime of the instance.
C30_OneEmergencyAlert ==
    /\ [][C30_AfterCallbacks]_vars
    /\ [](\A i \in 1..Len(alert_callbacks) :
             Cardinality(EmergencyDeliveries(i)) <= 1)

\* The last reading of a history.
Latest(readings) == readings[Len(readings)]

\* A tick that began with the monitor in emergency and has reached its sleep
\* without sensor fault: the three channels were sampled into the state and
\* the histories, the level is EMERGENCY and no trigger call of the tick got
\* past its check. And the loop goes on in emergency: at the head of the
\* loop, with the stop event clear, the next tick can begin.
C31_EmergencyTick ==
    \A t \in Tasks :
        /\ (pc[t] = "sleep" /\ frame[t].pre /\ ~frame[t].fault)
           => /\ frame[t].sampled = {"thermal", "power", "neural"}
              /\ Latest(temperature_readings) = state.current_temperature
              /\ Latest(current_readings) = state.current_current_ma
              /\ Latest(neural_readings) = state.neural_activity_uv
              /\ state.is_emergency
              /\ state.safety_level = EMERGENCY
              /\ frame[t].fired = ""
        /\ (pc[t] = "head" /\ ~stop_event /\ ticks < MaxTicks)
           => ENABLED TickBegin(t, MaxTicks)

\* A thread inside a tick that began in emergency invokes no shutdown
\* callback.
C31_NoCallback ==
    \A t \in Tasks :
        (frame[t].pre /\ pc[t] # "head")
        => \A k \in DOMAIN shutdown_log' :
              k > Len(shutdown_log) => shutdown_log'[k].by # t

\* C31: while is_emergency is set and the loop runs, ticks keep executing:
\* each samples the three channels and updates the readings and the
\* histories, ends with safety_level EMERGENCY and invokes no shutdown
\* callback.
C31_TicksInEmergency == []C31_EmergencyTick /\ [][C31_NoCallback]_vars

\* The tick after the thermal shutdown has sampled 0 degrees: the history
\* holds 60 and 0, the level is EMERGENCY and the callback was invoked once,
\* by the first tick.
C31_Witness ==
    \E t \in Tasks :
        /\ pc[t] = "sleep"
        /\ frame[t].pre
        /\ temperature_readings = <<60, 0>>
        /\ Len(neural_readings) = 2
        /\ state.safety_level = EMERGENCY
        /\ Len(shutdown_log) = 1
        /\ shutdown_log[1].reason = THERMAL_RUNAWAY

\* The pattern matches somewhere inside the name.
MatchesAnywhere(pattern, name) ==
    \E j \in 1..(Len(name) + 1) : MatchAt(pattern, 1, name, j)

\* C32: matching is case-insensitive and unanchored. Under the default list a
\* finished call has returned False for every name that a denying
\* restriction's pattern matches anywhere inside, in any letter case, among
\* them "CPU-BURN" and "my-cpu-burn".
C32_UnanchoredMatch ==
    \A c \in Callers :
        (Answered(c) /\ restricted_processes = DEFAULT_RESTRICTED_PROCESSES)
        => /\ (\E k \in DOMAIN DEFAULT_RESTRICTED_PROCESSES :
                  /\ Denying(DEFAULT_RESTRICTED_PROCESSES[k])
                  /\ MatchesAnywhere(DEFAULT_RESTRICTED_PROCESSES[k].pattern,
                                     gate[c].name))
                 => gate[c].result = "denied"
           /\ gate[c].name \in {CPU_BURN, my_cpu_burn}
                 => gate[c].result = "denied"

\* The case-insensitive half of C32 alone: "CPU-BURN" is denied.
C32_AnyCase ==
    \A c \in Callers :
        ( /\ Answered(c)
          /\ restricted_processes = DEFAULT_RESTRICTED_PROCESSES
          /\ gate[c].name = CPU_BURN )
        => gate[c].result = "denied"

\* Some subsystem other than the monitor is running.
OtherRunning == \E i \in 1..Len(Subsystems) : engine[Subsystems[i]].is_running

\* The engine holds a monitor, and the monitor is running.
MonitorRunning == engine.safety_monitor # NoObject /\ is_running

\* C33 (its last clause alone): with the monitor enabled, the monitor is
\* running in every state in which another subsystem is running.
C33_Covered == engine.safety_monitor_enabled /\ OtherRunning => MonitorRunning

\* No other subsystem is ever built, so none is ever running.
C33_NoneBuilt ==
    \A i \in 1..Len(Subsystems) : engine[Subsystems[i]] = None

\* C33: with the monitor enabled, the engine starts the monitor before every
\* other subsystem and stops it after every other subsystem: the monitor is
\* running whenever another subsystem is, and after a stop() that found the
\* engine running the monitor is stopped.
C33_MonitorBrackets ==
    /\ C33_Covered
    /\ /\ engine.safety_monitor_enabled
       /\ engine.call.op = "stop"
       /\ engine.call.outcome # "warned"
       => ~is_running

C34_Decided == engine.call = Outcome("process_decision", "none")

\* C40: after a start() that raised, state.is_running is false and nothing
\* that start() started is left running, neither the monitor nor another
\* subsystem.
C40_FailedStartNotRunning ==
    engine.call.op = "start" /\ engine.call.outcome \notin {"none", "warned"} =>
       /\ ~engine.is_running
       /\ ~is_running
       /\ ~OtherRunning

\* Thread t is inside an iteration of the monitoring loop.
InTick(t) == pc[t] \notin {"unborn", "head", "done"}

\* C35: at most one monitoring thread is executing ticks at any time.
C35_OneLoop ==
    \A t, u \in Tasks : InTick(t) /\ InTick(u) => t = u

\* stop() has returned and start() has not been called since.
Stopped == spawned > 0 /\ ~is_running /\ pc[Main] = "idle"

\* C36: from the return of stop() to the next start(), no step changes the
\* readings, safety_level, is_emergency or shutdown_count, or invokes a
\* shutdown or an alert callback.
C36_StoppedTaskSilent ==
    [][Stopped =>
         /\ UNCHANGED <<histories, logs>>
         /\ state'.current_temperature = state.current_temperature
         /\ state'.current_current_ma = state.current_current_ma
         /\ state'.neural_activity_uv = state.neural_activity_uv
         /\ state'.safety_level = state.safety_level
         /\ state'.is_emergency = state.is_emergency
         /\ state'.shutdown_count = state.shutdown_count]_vars

\* The reasons of the channels whose value in the state is at or beyond its
\* red line, in the order the tick evaluates the channels.
Breaches ==
    (IF state.current_temperature >= thermal.emergency_threshold
     THEN <<THERMAL_RUNAWAY>> ELSE <<>>)
    \o (IF state.current_current_ma >= power.max_current_ma
        THEN <<POWER_SURGE>> ELSE <<>>)
    \o (IF state.neural_activity_uv >= neural.critical_threshold_uv
        THEN <<NEURAL_ANOMALY>> ELSE <<>>)

\* Thread t has finished the checks of a tick that began out of emergency and
\* had no sensor fault, and several channels were at their red lines.
SeveralBreached(t) ==
    /\ pc[t] = "sleep"
    /\ ~frame[t].pre
    /\ ~frame[t].fault
    /\ Len(Breaches) >= 2

NoTriggerRunning ==
    \A t \in Threads : pc[t] \notin {"t_check", "t_flag", "t_load", "t_store", "t_cb"}

\* C38: while no trigger is under way, shutdown_count is 0 or 1, and
\* is_emergency, shutdown_count = 1 and last_shutdown being set hold together
\* or not at all; a monitor that was never started and whose trigger was
\* never called is not in emergency, with shutdown_count 0, last_shutdown
\* unset and safety_level NORMAL.
C38_ShutdownOnce ==
    NoTriggerRunning =>
       /\ state.shutdown_count \in {0, 1}
       /\ state.is_emergency <=> state.shutdown_count = 1
       /\ state.is_emergency <=> state.last_shutdown # NoShutdown
       /\ spawned = 0 /\ clock = 1 =>
             /\ ~state.is_emergency
             /\ state.shutdown_count = 0
             /\ state.last_shutdown = NoShutdown
             /\ state.safety_level = NORMAL

\* The levels of the alerts thread t has sent in the running tick.
AlertLevels(t) ==
    {alert_log[k].level :
        k \in {j \in DOMAIN alert_log :
                  alert_log[j].by = t /\ alert_log[j].tick = ticks}}

\* C39: at the end of every tick without sensor fault in which is_emergency
\* is false, safety_level is the highest level among the alerts the tick has
\* sent, and NORMAL when it has sent none.
C39_LevelMatchesAlerts ==
    \A t \in Tasks :
       pc[t] = "sleep" /\ ~frame[t].fault /\ ~state.is_emergency =>
          state.safety_level = MaxLevel(AlertLevels(t) \cup {NORMAL})

\* C39 but for the warning tier of the current: the level matches the alerts
\* in every tick whose current is below warning_current_ma or at or above
\* critical_current_ma.
C39_ButPowerWarning ==
    \A t \in Tasks :
       /\ pc[t] = "sleep" /\ ~frame[t].fault /\ ~state.is_emergency
       /\ ~(/\ state.current_current_ma >= power.warning_current_ma
            /\ state.current_current_ma < power.critical_current_ma)
       => state.safety_level = MaxLevel(AlertLevels(t) \cup {NORMAL})

====
